---- MODULE Spec2Model ----
(***************************************************************************)
(* A model of XSLTjs: the XSLT.process / XSLT.transform driver and the     *)
(* XsltContext handlers (dispatch, apply-templates, copy-of, for-each,     *)
(* sortNodes, the variable scopes, attribute value templates).             *)
(*                                                                         *)
(* A JavaScript string is a sequence of one-character strings, a           *)
(* JavaScript value is a record tagged with its type, a DOM node is a      *)
(* record with the DOM's field names.  The module holds one state machine  *)
(* per part of the engine; each has its own specification, and the         *)
(* variables of the other machines stay parked at their initial value.     *)
(***************************************************************************)
EXTENDS Integers, Sequences, FiniteSets, TLC

VARIABLES
  \* ---- XSLT.process / XSLT.transform (the run machine) ----
  transformDoc,   \* the transform document handed to process
  pc,             \* position of the async executor of process
  ti,             \* index of the next top-level child of the transform element
  ip,             \* index of the next child processChildNodes dispatches
  fragmentNode,   \* children appended to the output fragment so far
  xml,            \* the serialized (and post-processed) text
  promise,        \* the promise process returned: state and value
  callbacks,      \* the invocations of transform's callback, in order
  thrown,         \* the exception on its way to the executor's catch, or Null
  floating,       \* the rejections of promises nothing awaits (customFunction)
  dispatched,     \* local names of the XSLT elements dispatched without handler
  output,         \* the static XsltContext.output
  runs,           \* the earlier runs of the same process: transform, promise
  \* ---- XsltContext.xsltApplyTemplates (the apply machine) ----
  at,             \* the running apply-templates call: its inputs and locals
  atOut,          \* the children appended to its outputNode so far
  atLog,          \* what the call did, in order (tried, fired, copied, sorted)
  \* ---- XsltContext.clone / setVariable / getVariable (the scope machine) ----
  contexts,       \* the contexts created so far; a context's parent field
                  \* is an index into this sequence, 0 for the root's null
  \* ---- the last call of a method or handler and what came of it ----
  call,           \* the call: the method, its arguments, its context
  result,         \* what the call returned or threw, Null before a call
  \* ---- XsltContext.xsltTransform and processIncludes ----
  xt,             \* the running xsltTransform call: its position, what it
                  \* has bound, cached and fired so far
  inc,            \* the running processIncludes call: the documents that can
                  \* be fetched, the children of the transform element, i
  \* ---- the DOM trees of a run ----
  dom,            \* the nodes that exist, each with where it came from and
                  \* its parent, and the appends to the output tree in order
  \* ---- two runs of XSLT.process side by side ----
  procs           \* the cfg objects and contexts of the runs

runVars == <<transformDoc, pc, ti, ip, fragmentNode, xml, promise, callbacks,
             thrown, floating, dispatched, output, runs>>
applyVars == <<at, atOut, atLog>>
scopeVars == <<contexts>>
handlerVars == <<call, result>>
transformVars == <<xt, inc, dom, procs>>
vars == <<runVars, applyVars, scopeVars, handlerVars, transformVars>>

-----------------------------------------------------------------------------
(* Bounds of the model *)

MaxTop == 2       \* top-level children of the transform element
MaxBody == 2      \* children of a template body

-----------------------------------------------------------------------------
(* JavaScript values and strings *)

Null == [t |-> "null"]
Undefined == [t |-> "undefined"]
Str(s) == [t |-> "string", v |-> s]

\* All sequences over S of length at most n.
SeqsUpTo(S, n) == UNION {[1..k -> S] : k \in 0..n}

RECURSIVE Concat(_)
Concat(ss) == IF ss = <<>> THEN <<>> ELSE Head(ss) \o Concat(Tail(ss))

\* The characters matched by \s in this model's alphabet.
IsSpaceChar(c) == c \in {" ", "\n", "\t"}

\* s.startsWith(p) at 1-based position i.
StartsAt(s, i, p) == i + Len(p) - 1 <= Len(s) /\ SubSeq(s, i, i + Len(p) - 1) = p

\* String.prototype.replace(/p/g, r) for a literal pattern p: leftmost,
\* non-overlapping occurrences, left to right.
RECURSIVE ReplaceAll(_, _, _)
ReplaceAll(s, p, r) ==
  IF s = <<>> THEN <<>>
  ELSE IF StartsAt(s, 1, p) THEN r \o ReplaceAll(SubSeq(s, Len(p) + 1, Len(s)), p, r)
  ELSE <<Head(s)>> \o ReplaceAll(Tail(s), p, r)

-----------------------------------------------------------------------------
(* DOM nodes (the xmldom objects the engine reads and builds) *)

TextNode(text) == [nodeType |-> "text", nodeValue |-> text]
ElementNode(name, attrs, children) ==
  [nodeType |-> "element", nodeName |-> name, attributes |-> attrs,
   childNodes |-> children]
Attr(name, value) == [nodeName |-> name, nodeValue |-> value]

\* text.replace(/ +/g, ' ') of XDomHelper.createTextNode.
RECURSIVE CollapseSpaces(_)
CollapseSpaces(text) ==
  IF Len(text) < 2 THEN text
  ELSE IF text[1] = " " /\ text[2] = " " THEN CollapseSpaces(Tail(text))
  ELSE <<Head(text)>> \o CollapseSpaces(Tail(text))

\* $$(document).createTextNode(text): runs of spaces become one space.
createTextNode(text) == TextNode(CollapseSpaces(text))

\* Node.textContent: the text of the node and of its descendants.
RECURSIVE textContent(_)
textContent(node) ==
  IF node.nodeType = "text" THEN node.nodeValue
  ELSE Concat([k \in 1..Len(node.childNodes) |-> textContent(node.childNodes[k])])

\* The serializer's encoding of character data: < > & become entity
\* references, one token each; quotes are left as they are.
escapeText(data) ==
  [k \in 1..Len(data) |->
     CASE data[k] = "<" -> "&lt;"
       [] data[k] = ">" -> "&gt;"
       [] data[k] = "&" -> "&amp;"
       [] OTHER -> data[k]]

\* XMLSerializer.serializeToString of a list of sibling nodes.  An element is
\* written as a start tag token, its children and an end tag token.
RECURSIVE serializeToString(_)
serializeToString(nodes) ==
  IF nodes = <<>> THEN <<>>
  ELSE LET n == Head(nodes) IN
       (IF n.nodeType = "text" THEN escapeText(n.nodeValue)
        ELSE <<"<">> \o n.nodeName
             \o Concat([k \in 1..Len(n.attributes) |->
                  <<" ">> \o n.attributes[k].nodeName \o <<"=", "'">>
                  \o n.attributes[k].nodeValue \o <<"'">>])
             \o <<">">> \o serializeToString(n.childNodes)
             \o <<"<", "/">> \o n.nodeName \o <<">">>)
       \o serializeToString(Tail(nodes))

-----------------------------------------------------------------------------
(* XSLT.process: the post-processing of the serialized text *)

\* Index of the first k >= i with s[k] = c, or 0.
RECURSIVE IndexFrom(_, _, _)
IndexFrom(s, i, c) ==
  IF i > Len(s) THEN 0 ELSE IF s[i] = c THEN i ELSE IndexFrom(s, i + 1, c)

\* .replace(/<\?xml\s.*?\?>\n?/, ''): the first XML declaration goes, with
\* the line break after it.  "<?xml " and "?>" are single tokens here.
StripXmlDecl(s) ==
  LET i == IndexFrom(s, 1, "<?xml ")
      j == IF i = 0 THEN 0 ELSE IndexFrom(s, i + 1, "?>")
      nl == IF j > 0 /\ j < Len(s) /\ s[j + 1] = "\n" THEN 1 ELSE 0
  IN IF i = 0 \/ j = 0 \/ IndexFrom(SubSeq(s, i, j), 1, "\n") > 0 THEN s
     ELSE SubSeq(s, 1, i - 1) \o SubSeq(s, j + nl + 1, Len(s))

\* .replace(/\n\s*/g, '\n'): a line break swallows the white space after it.
RECURSIVE DropSpaces(_)
DropSpaces(s) ==
  IF s # <<>> /\ IsSpaceChar(Head(s)) THEN DropSpaces(Tail(s)) ELSE s
RECURSIVE StripIndent(_)
StripIndent(s) ==
  IF s = <<>> THEN <<>>
  ELSE IF Head(s) = "\n" THEN <<"\n">> \o StripIndent(DropSpaces(Tail(s)))
  ELSE <<Head(s)>> \o StripIndent(Tail(s))

\* The five named replacements of the disable-output-escaping kludge.
ResolveNamed(s) ==
  ReplaceAll(ReplaceAll(ReplaceAll(ReplaceAll(ReplaceAll(s,
    <<"[", "[", "&lt;", "]", "]">>, <<"<">>),
    <<"[", "[", "&gt;", "]", "]">>, <<">">>),
    <<"[", "[", "&apos;", "]", "]">>, <<"'">>),
    <<"[", "[", "&quot;", "]", "]">>, <<"\"">>),
    <<"[", "[", "&amp;", "]", "]">>, <<"&">>)

\* .replace(/\[\[(.)]]/g, '$1'): any single character but a line break.
RECURSIVE ResolveAny(_)
ResolveAny(s) ==
  IF s = <<>> THEN <<>>
  ELSE IF Len(s) >= 5 /\ s[1] = "[" /\ s[2] = "[" /\ s[3] # "\n"
          /\ Len(s[3]) = 1 /\ s[4] = "]" /\ s[5] = "]"
       THEN <<s[3]>> \o ResolveAny(SubSeq(s, 6, Len(s)))
  ELSE <<Head(s)>> \o ResolveAny(Tail(s))

\* if ((/\[\[/).test(xml)) { ... }
ResolveSentinels(s) ==
  IF \E i \in 1..Len(s) : StartsAt(s, i, <<"[", "[">>)
  THEN ResolveAny(ResolveNamed(s)) ELSE s

PostProcess(s) == ResolveSentinels(StripIndent(StripXmlDecl(s)))

\* The declaration process prepends: version, encoding and standalone of
\* XsltContext.output, one token each.
XmlDecl(out) ==
  <<"<?xml ", "version=", out.version, " encoding=", out.encoding,
    " standalone=", out.standalone, "?>", "\n">>

\* The record xsltOutput stores in the static XsltContext.output.
OutputRecord(omit) ==
  [version |-> "1.0", encoding |-> "UTF-8", omitXmlDeclaration |-> omit,
   standalone |-> "no"]

\* What resolve() is called with, given the text and XsltContext.output.
Resolved(text, out) ==
  IF out # Undefined /\ out.omitXmlDeclaration # "yes"
  THEN XmlDecl(out) \o text ELSE text

-----------------------------------------------------------------------------
(* XsltContext.process: the dispatch of an element of the XSLT namespace *)

\* The methods of XsltContext whose name starts with xslt.
XsltMethods ==
  {"xsltMatch", "xsltTest", "xsltSelect", "xsltApplyTemplates", "xsltAttribute",
   "xsltCallTemplate", "xsltChoose", "xsltComment", "xsltCopy", "xsltCopyOf",
   "xsltDecimalFormat", "xsltElement", "xsltForEach", "xsltFunction", "xsltIf",
   "xsltInclude", "xsltImport", "xsltOutput", "xsltParam", "xsltPreserveSpace",
   "xsltProcessingInstruction", "xsltSort", "xsltStripSpace", "xsltStylesheet",
   "xsltTransform", "xsltTemplate", "xsltText", "xsltValueOf", "xsltVariable",
   "xsltWithParam"}

\* 'xslt' + localName.replace(/^[a-z]|-[a-z]/gi, ...), for the local names
\* that occur in this model.
functionName(localName) ==
  CASE localName = "transform" -> "xsltTransform"
    [] localName = "stylesheet" -> "xsltStylesheet"
    [] localName = "template" -> "xsltTemplate"
    [] localName = "output" -> "xsltOutput"
    [] localName = "value-of" -> "xsltValueOf"
    [] localName = "copy-of" -> "xsltCopyOf"
    [] localName = "for-each" -> "xsltForEach"
    [] localName = "sort" -> "xsltSort"
    [] localName = "apply-templates" -> "xsltApplyTemplates"
    [] localName = "message" -> "xsltMessage"
    [] localName = "key" -> "xsltKey"
    [] OTHER -> "xslt?"

\* if (this[functionName]) ... else throw new Error(`not implemented: ...`)
HasHandler(localName) == functionName(localName) \in XsltMethods

NotImplemented(localName) ==
  [name |-> "Error", message |-> <<"not implemented: ", localName>>]

\* exception.toString()
ErrorToString(e) == <<e.name, ": ">> \o e.message

-----------------------------------------------------------------------------
(* Attribute values and the contexts of XsltContext *)

MaxTemplates == 2   \* xsl:template children of the transform element
MaxNodes == 2       \* children of the input element apply-templates works on

\* What getAttribute gives for an attribute the element does not have, and
\* the two other falsy values a mode takes.
NoAttr == ""
JsUndefined == "<undefined>"
JsNull == "<null>"
Truthy(v) == v \notin {NoAttr, JsUndefined, JsNull}

\* a || b
OrElse(a, b) == IF Truthy(a) THEN a ELSE b

\* The object literal {}.
EmptyObject == <<>>

Digit(k) == <<"0", "1", "2", "3", "4", "5", "6", "7", "8", "9">>[k + 1]

\* The decimal digits of an integer, as Number.prototype.toString writes it.
RECURSIVE DigitsOf(_)
DigitsOf(n) ==
  IF n < 0 THEN <<"-">> \o DigitsOf(0 - n)
  ELSE IF n < 10 THEN <<Digit(n)>>
  ELSE DigitsOf(n \div 10) \o <<Digit(n % 10)>>

\* An input node: a DOM node with its identity, the position among the
\* children of its parent.
InputNode(id, node) == [id |-> id] @@ node

Has(options, field) == field \in DOMAIN options

\* copy that appends the source node itself (destNode.appendChild(srcNode)).
\* process with one cfg object for all its calls: the first call makes the
\* object, the later ones hand out the same.
processCfgStatic(cfgs) ==
  IF cfgs = <<>>
  THEN [cfgs |-> <<[stripSpaceList |-> {}, preserveSpaceList |-> {},
                    templatesByMode |-> <<>>, builds |-> 0,
                    readers |-> {}, writers |-> {}]>>,
        cfg |-> 1]
  ELSE [cfgs |-> cfgs, cfg |-> 1]

copyShared(nodes, destNode, srcNode) ==
  IF nodes[srcNode].nodeType \in {"element", "text"}
  THEN [nodes EXCEPT ![srcNode].parent = destNode]
  ELSE nodes

\* clone that keeps the position of the cloned context
\* (contextPosition: this.contextPosition).
cloneKeepPosition(heap, this, options) ==
  [contextNode |-> IF Has(options, "contextNode") THEN options.contextNode
                   ELSE heap[this].contextNode,
   contextPosition |-> heap[this].contextPosition,
   nodeList |-> IF Has(options, "nodeList") THEN options.nodeList
                ELSE heap[this].nodeList,
   variables |-> IF Has(options, "variables") THEN options.variables
                 ELSE EmptyObject,
   mode |-> IF Has(options, "mode") THEN OrElse(options.mode, JsNull)
            ELSE JsNull,
   parent |-> this]

\* clone with an inherited mode (mode: options.mode || this.mode).
cloneInheritMode(heap, this, options) ==
  [contextNode |-> IF Has(options, "contextNode") THEN options.contextNode
                   ELSE heap[this].contextNode,
   contextPosition |-> IF Has(options, "contextPosition")
                       THEN options.contextPosition
                       ELSE heap[this].contextPosition,
   nodeList |-> IF Has(options, "nodeList") THEN options.nodeList
                ELSE heap[this].nodeList,
   variables |-> IF Has(options, "variables") THEN options.variables
                 ELSE EmptyObject,
   mode |-> IF Has(options, "mode") THEN OrElse(options.mode, heap[this].mode)
            ELSE heap[this].mode,
   parent |-> this]

\* clone(options), called on contexts[this] of the heap.  The fields this
\* model keeps: a node, a position and a node list given in the options are
\* never falsy; variables are copied when given and empty otherwise; the
\* mode is not inherited.
clone(heap, this, options) ==
  [contextNode |-> IF Has(options, "contextNode") THEN options.contextNode
                   ELSE heap[this].contextNode,
   contextPosition |-> IF Has(options, "contextPosition")
                       THEN options.contextPosition
                       ELSE heap[this].contextPosition,
   nodeList |-> IF Has(options, "nodeList") THEN options.nodeList
                ELSE heap[this].nodeList,
   variables |-> IF Has(options, "variables") THEN options.variables
                 ELSE EmptyObject,
   mode |-> IF Has(options, "mode") THEN OrElse(options.mode, JsNull)
            ELSE JsNull,
   parent |-> this]

-----------------------------------------------------------------------------
(* XPath selection, as far as the expressions of this model go *)

\* The expressions that pass the shortcut test of XDomHelper.select,
\* /^(?:[a-zA-Z0-9\-_]+:)?[a-zA-Z0-9\-_]+$/.
IsShortcut(xPath) == xPath \in {"a", "b", "n"}

\* $$(node).isA(qName) for a name without prefix: an element of that name.
isA(node, qName) == node.nodeType = "element" /\ node.nodeName = <<qName>>

\* $$(node).select(xPath, context) with the result type ANY: the shortcut
\* filters the children with isA, the XPath engine evaluates the rest.
select(xPath, node) ==
  IF IsShortcut(xPath)
  THEN IF node.nodeType \in {"element", "document"}
       THEN SelectSeq(node.childNodes, LAMBDA child : isA(child, xPath))
       ELSE <<>>
  ELSE CASE xPath = "text()" ->
              IF node.nodeType \in {"element", "document"}
              THEN SelectSeq(node.childNodes,
                             LAMBDA child : child.nodeType = "text")
              ELSE <<>>
         [] xPath = "*" ->
              IF node.nodeType \in {"element", "document"}
              THEN SelectSeq(node.childNodes,
                             LAMBDA child : child.nodeType = "element")
              ELSE <<>>
         [] xPath = "." -> <<node>>
         [] OTHER -> <<>>

-----------------------------------------------------------------------------
(* The run machine: XSLT.transform -> XSLT.process -> processRoot ->        *)
(* xsltTransform -> processChildNodes -> process, then serialization and   *)
(* the settling of the promise.                                            *)

\* Top-level children of the transform element: an xsl:output with
\* omit-xml-declaration yes or no, the template match="/", a template that
\* matches the document element of the input.
TopKinds == {"output-yes", "output-no", "template-root", "template-r"}

\* Children of a template body:
\*   text         a text child with other characters than white space
\*   newline      a white-space-only text child holding a line break
\*   valueOfEmpty an xsl:value-of whose select gives the empty string
\*   lre          a literal result element without children
\*   unknown      an element of the XSLT namespace without handler
\*   fnCall       an xsl:value-of whose select calls an xsl:function of the
\*                transform, the body of which holds such an element
BodyKinds == {"text", "newline", "valueOfEmpty", "lre", "unknown", "fnCall"}

\* Local name of the element without handler the bodies use.
UnknownName == "message"

TransformDocs ==
  [documentElement : {"transform", "key"},
   childNodes : SeqsUpTo(TopKinds, MaxTop),
   body : SeqsUpTo(BodyKinds, MaxBody)]

Pending == [state |-> "pending"]

\* A step of a run leaves the other machines and the record of the earlier
\* runs alone.
RunOnly ==
  UNCHANGED <<applyVars, scopeVars, handlerVars, transformVars, runs>>

ParkRun ==
  /\ transformDoc = Null /\ pc = "parked" /\ ti = 0 /\ ip = 0
  /\ fragmentNode = <<>> /\ xml = <<>> /\ promise = Pending
  /\ callbacks = <<>> /\ thrown = Null /\ floating = <<>>
  /\ dispatched = {} /\ output = Undefined /\ runs = <<>>

\* The state when transform() has called process().  XsltContext.output is
\* static: it holds what the last run of the same process stored in it.
InitRun ==
  /\ transformDoc \in TransformDocs
  /\ pc = "start" /\ ti = 0 /\ ip = 0
  /\ fragmentNode = <<>> /\ xml = <<>> /\ promise = Pending
  /\ callbacks = <<>> /\ thrown = Null /\ floating = <<>>
  /\ dispatched = {} /\ runs = <<>>
  /\ output \in {Undefined, OutputRecord("yes"), OutputRecord("no")}

\* processRoot: the dispatch of the document element of the transform.
ProcessRoot ==
  /\ RunOnly
  /\ pc = "start"
  /\ IF HasHandler(transformDoc.documentElement)
     THEN /\ pc' = "transform" /\ ti' = 1
          /\ UNCHANGED <<thrown, dispatched>>
     ELSE /\ pc' = "catch"
          /\ thrown' = NotImplemented(transformDoc.documentElement)
          /\ dispatched' = dispatched \cup {transformDoc.documentElement}
          /\ ti' = ti
  /\ UNCHANGED <<transformDoc, ip, fragmentNode, xml, promise, callbacks,
                 floating, output>>

\* xsltTransform, one turn of its loop over the children (the include
\* pre-pass finds no xsl:include or xsl:import in these transforms).
XsltTransformChild ==
  /\ RunOnly
  /\ pc = "transform" /\ ti <= Len(transformDoc.childNodes)
  /\ LET child == transformDoc.childNodes[ti] IN
       CASE child = "output-yes" ->
              output' = OutputRecord("yes") /\ ti' = ti + 1 /\ UNCHANGED <<pc, ip>>
         [] child = "output-no" ->
              output' = OutputRecord("no") /\ ti' = ti + 1 /\ UNCHANGED <<pc, ip>>
         [] child = "template-root" ->
              pc' = "rootBody" /\ ip' = 1 /\ UNCHANGED <<output, ti>>
         [] OTHER -> ti' = ti + 1 /\ UNCHANGED <<output, pc, ip>>
  /\ UNCHANGED <<transformDoc, fragmentNode, xml, promise, callbacks, thrown,
                 floating, dispatched>>

\* xsltTransform after its loop found no template match="/":
\* processChildNodes(transformNode, outputNode, { ignoreText: true }).
XsltTransformNoRoot ==
  /\ RunOnly
  /\ pc = "transform" /\ ti > Len(transformDoc.childNodes)
  /\ IF Len(transformDoc.childNodes) = 0
     THEN /\ fragmentNode' = Append(fragmentNode, TextNode(<<>>))
          /\ pc' = "serialize" /\ ti' = ti
     ELSE /\ pc' = "children" /\ ti' = 1 /\ UNCHANGED fragmentNode
  /\ UNCHANGED <<transformDoc, ip, xml, promise, callbacks, thrown, floating,
                 dispatched, output>>

\* One child of the transform element dispatched by that processChildNodes:
\* xsltOutput again, or xsltTemplate, which fires on the document element.
TransformChildNodes ==
  /\ RunOnly
  /\ pc = "children"
  /\ IF ti > Len(transformDoc.childNodes)
     THEN pc' = "serialize" /\ UNCHANGED <<ti, ip, output>>
     ELSE LET child == transformDoc.childNodes[ti] IN
       CASE child = "output-yes" ->
              output' = OutputRecord("yes") /\ ti' = ti + 1 /\ UNCHANGED <<pc, ip>>
         [] child = "output-no" ->
              output' = OutputRecord("no") /\ ti' = ti + 1 /\ UNCHANGED <<pc, ip>>
         [] OTHER -> pc' = "templateBody" /\ ip' = 1 /\ UNCHANGED <<output, ti>>
  /\ UNCHANGED <<transformDoc, fragmentNode, xml, promise, callbacks, thrown,
                 floating, dispatched>>

\* processChildNodes(templateNode, outputNode) of a fired template: the
\* template has no children, so an empty text node is appended.
BodyEmpty ==
  /\ RunOnly
  /\ pc \in {"rootBody", "templateBody"} /\ Len(transformDoc.body) = 0
  /\ fragmentNode' = Append(fragmentNode, TextNode(<<>>))
  /\ IF pc = "rootBody" THEN pc' = "serialize" /\ ti' = ti
     ELSE pc' = "children" /\ ti' = ti + 1
  /\ UNCHANGED <<transformDoc, ip, xml, promise, callbacks, thrown, floating,
                 dispatched, output>>

\* What the dispatch of one body child appends to the output node.
Appended(kind) ==
  CASE kind = "text" -> <<createTextNode(<<"a">>)>>
    [] kind = "lre" -> <<ElementNode(<<"e">>, <<>>, <<TextNode(<<>>)>>)>>
    [] OTHER -> <<>>

\* One turn of the loop of processChildNodes over the template's children.
\* An element goes through process: a literal result element to passThrough,
\* xsl:value-of to its handler, an element without handler throws.  The
\* xsl:function called from a select is run by customFunction, which does not
\* await processChildNodes: the exception of its body rejects a promise that
\* nothing awaits, and the function's text is still empty.
BodyChild ==
  /\ RunOnly
  /\ pc \in {"rootBody", "templateBody"}
  /\ Len(transformDoc.body) > 0 /\ ip <= Len(transformDoc.body)
  /\ LET kind == transformDoc.body[ip] IN
       /\ fragmentNode' = fragmentNode \o Appended(kind)
       /\ dispatched' = IF kind \in {"unknown", "fnCall"}
                        THEN dispatched \cup {UnknownName} ELSE dispatched
       /\ floating' = IF kind = "fnCall"
                      THEN Append(floating, NotImplemented(UnknownName))
                      ELSE floating
       /\ IF kind = "unknown"
          THEN pc' = "catch" /\ thrown' = NotImplemented(UnknownName) /\ ip' = ip
          ELSE ip' = ip + 1 /\ UNCHANGED <<pc, thrown>>
  /\ UNCHANGED <<transformDoc, ti, xml, promise, callbacks, output>>

\* processChildNodes returns to its caller: xsltTransform returns true after
\* the template match="/", the loop over the transform's children goes on
\* after another template.
BodyReturn ==
  /\ RunOnly
  /\ pc \in {"rootBody", "templateBody"}
  /\ Len(transformDoc.body) > 0 /\ ip > Len(transformDoc.body)
  /\ IF pc = "rootBody" THEN pc' = "serialize" /\ ti' = ti
     ELSE pc' = "children" /\ ti' = ti + 1
  /\ UNCHANGED <<transformDoc, ip, fragmentNode, xml, promise, callbacks,
                 thrown, floating, dispatched, output>>

\* xmlSerializer.serializeToString(fragmentNode) and the replacements.
Serialize ==
  /\ RunOnly
  /\ pc = "serialize"
  /\ xml' = PostProcess(serializeToString(fragmentNode))
  /\ pc' = "settle"
  /\ UNCHANGED <<transformDoc, ti, ip, fragmentNode, promise, callbacks,
                 thrown, floating, dispatched, output>>

\* if (xml) { ...; resolve(xml); } and the executor returns.
Settle ==
  /\ RunOnly
  /\ pc = "settle"
  /\ promise' = IF xml # <<>>
                THEN [state |-> "resolved", value |-> Str(Resolved(xml, output))]
                ELSE promise
  /\ pc' = "returned"
  /\ UNCHANGED <<transformDoc, ti, ip, fragmentNode, xml, callbacks, thrown,
                 floating, dispatched, output>>

\* catch (exception) { reject(exception); }
Catch ==
  /\ RunOnly
  /\ pc = "catch"
  /\ promise' = [state |-> "rejected", value |-> thrown]
  /\ pc' = "returned"
  /\ UNCHANGED <<transformDoc, ti, ip, fragmentNode, xml, callbacks, thrown,
                 floating, dispatched, output>>

\* The reactions transform() registered with .then(onResolved, onRejected).
Callback ==
  /\ RunOnly
  /\ promise.state # "pending" /\ callbacks = <<>>
  /\ callbacks' =
       IF promise.state = "resolved"
       THEN <<[error |-> Null, result |-> promise.value]>>
       ELSE <<[error |-> Str(ErrorToString(promise.value)), result |-> Null]>>
  /\ UNCHANGED <<transformDoc, pc, ti, ip, fragmentNode, xml, promise, thrown,
                 floating, dispatched, output>>

ParkApply == at = Null /\ atOut = <<>> /\ atLog = <<>>
ParkScope == contexts = <<>>
ParkHandler == call = Null /\ result = Null
ParkTransform == xt = Null /\ inc = Null /\ dom = Null /\ procs = Null

Init == InitRun /\ ParkApply /\ ParkScope /\ ParkHandler /\ ParkTransform

Next ==
  \/ ProcessRoot
  \/ XsltTransformChild
  \/ XsltTransformNoRoot
  \/ TransformChildNodes
  \/ BodyEmpty
  \/ BodyChild
  \/ BodyReturn
  \/ Serialize
  \/ Settle
  \/ Catch
  \/ Callback

\* The specification of one run of transform().
Spec == Init /\ [][Next]_vars

\* The executor of process has returned and no reaction of the promise is
\* left to run: nothing more happens in this run.
RunOver ==
  pc = "returned" /\ ~(promise.state # "pending" /\ callbacks = <<>>)

MaxRuns == 3      \* runs of process in one Node process

\* The transforms of a process that runs several: a template match="/"
\* with or without text, alone or after an xsl:output.
RunDocs ==
  [documentElement : {"transform"},
   childNodes : {<<"template-root">>, <<"output-no", "template-root">>,
                 <<"output-yes", "template-root">>},
   body : {<<>>, <<"text">>}]

\* The first run of a Node process: XsltContext.output is not yet set.
InitRuns ==
  /\ transformDoc \in RunDocs
  /\ pc = "start" /\ ti = 0 /\ ip = 0
  /\ fragmentNode = <<>> /\ xml = <<>> /\ promise = Pending
  /\ callbacks = <<>> /\ thrown = Null /\ floating = <<>>
  /\ dispatched = {} /\ runs = <<>> /\ output = Undefined
  /\ ParkApply /\ ParkScope /\ ParkHandler /\ ParkTransform

\* transform() is called again in the same process once the run before is
\* over: process starts with a new fragment, a new context and a new
\* promise, and with the static XsltContext.output as the run before left
\* it.
ProcessAgain ==
  /\ UNCHANGED <<applyVars, scopeVars, handlerVars, transformVars>>
  /\ RunOver /\ Len(runs) + 1 < MaxRuns
  /\ runs' = Append(runs, [transformDoc |-> transformDoc, promise |-> promise])
  /\ transformDoc' \in RunDocs
  /\ pc' = "start" /\ ti' = 0 /\ ip' = 0
  /\ fragmentNode' = <<>> /\ xml' = <<>> /\ promise' = Pending
  /\ callbacks' = <<>> /\ thrown' = Null /\ floating' = <<>>
  /\ dispatched' = {}
  /\ UNCHANGED output

NextRuns ==
  \/ ProcessRoot
  \/ XsltTransformChild
  \/ BodyEmpty
  \/ BodyChild
  \/ BodyReturn
  \/ Serialize
  \/ Settle
  \/ Callback
  \/ ProcessAgain

\* The specification of the runs of one Node process.
SpecRuns == InitRuns /\ [][NextRuns]_vars

\* C1: every call of process settles its promise (resolved with the output
\* text or rejected with the error) and every call of transform invokes the
\* callback exactly once, with (null, outputXml) or (errorMessage, null),
\* also for a transform that emits no output at all.  Stated on the finished
\* run: once nothing is left to run, the promise is settled and the callback
\* has been invoked once with the matching arguments.
C1_PromiseSettlesCallbackOnce ==
  RunOver =>
    /\ promise.state \in {"resolved", "rejected"}
    /\ Len(callbacks) = 1
    /\ promise.state = "resolved" =>
         callbacks[1] = [error |-> Null, result |-> promise.value]
    /\ promise.state = "rejected" =>
         callbacks[1] = [error |-> Str(ErrorToString(promise.value)),
                         result |-> Null]

\* C2: whenever a run dispatches an element of the XSLT namespace that has
\* no handler, the run fails: the promise is rejected with the error
\* 'not implemented: <local-name>', the callback receives the error message
\* and a null output, and no output text is delivered.
C2_UnknownElementFailsRun ==
  (RunOver /\ dispatched # {}) =>
    /\ promise.state = "rejected"
    /\ \E name \in dispatched : promise.value = NotImplemented(name)
    /\ Len(callbacks) = 1
    /\ callbacks[1].result = Null
    /\ callbacks[1].error = Str(ErrorToString(promise.value))

-----------------------------------------------------------------------------
(* The apply machine: one call of xsltApplyTemplates, with getTemplateNodes, *)
(* xsltTemplate, xsltMatch and sortNodes.                                   *)

\* The xsl:template children of the transform element the calls draw from:
\* match "a" or "text()", with or without mode, and a named template, which
\* has no match.
TemplateKinds ==
  {[match |-> m, mode |-> d] : m \in {"a", "text()"}, d \in {NoAttr, "x"}}
    \cup {[match |-> NoAttr, mode |-> NoAttr]}

\* The k-th child of the transform element: an xsl:template whose body is
\* one text child that names the template.
TemplateNode(k, kind) ==
  [id |-> k, nodeName |-> "xsl:template", match |-> kind.match,
   mode |-> kind.mode, childNodes |-> <<TextNode(<<"T", Digit(k)>>)>>]

\* The children of the input element: an element a, a text node, a text
\* node with a run of two spaces.
NodeKinds ==
  {ElementNode(<<"a">>, <<>>, <<>>), TextNode(<<"t">>),
   TextNode(<<"t", " ", " ", "u">>)}

SortNode == [nodeName |-> "xsl:sort", select |-> ".", dataType |-> NoAttr,
             order |-> NoAttr]

\* The xsl:apply-templates elements: mode, select, and the children.
ApplyNodes ==
  [mode : {NoAttr, "x", "_default"}, select : {NoAttr, "text()"},
   childNodes : {<<>>, <<SortNode>>}]

ApplyCalls ==
  [templates : SeqsUpTo(TemplateKinds, MaxTemplates),
   transformNode : ApplyNodes,
   children : SeqsUpTo(NodeKinds, MaxNodes),
   thisMode : {JsNull, "x"}]

\* getTemplateNodes(document, mode = '_default'): the cache after the call.
\* An entry, even an empty list, is never computed again.
getTemplateNodes(templatesByMode, childNodes, mode) ==
  LET key == IF mode = JsUndefined THEN "_default" ELSE mode IN
  IF key \in DOMAIN templatesByMode THEN templatesByMode
  ELSE (key :> SelectSeq(childNodes, LAMBDA child :
                 /\ child.nodeName = "xsl:template"
                 /\ child.match # NoAttr
                 /\ \/ key = "_default" /\ child.mode = NoAttr
                    \/ child.mode = key))
       @@ templatesByMode

\* xsltMatch without its test: every node is accepted.
xsltMatchAny(heap, this, match) == TRUE

\* xsltMatch(transformNode, match) on context heap[this]: the node the match
\* is selected from (the parent of the context node, an input element whose
\* children the candidates are) and the test of the selected nodes for the
\* context node itself.
xsltMatchNode(heap, this) == at.input
xsltMatch(heap, this, match) ==
  \E k \in 1..Len(select(match, xsltMatchNode(heap, this))) :
    select(match, xsltMatchNode(heap, this))[k].id = heap[this].contextNode.id

\* The text children of a template body as processChildNodes emits them.
processChildNodes(childNodes) ==
  IF Len(childNodes) = 0 THEN <<TextNode(<<>>)>>
  ELSE Concat([k \in 1..Len(childNodes) |->
         LET text == childNodes[k].nodeValue IN
         IF \E c \in 1..Len(text) : text[c] \notin {" ", "\r", "\n", "\f"}
         THEN <<createTextNode(text)>>
         ELSE IF text # <<>> /\ \A c \in 1..Len(text) : text[c] = " "
         THEN <<createTextNode(<<" ">>)>>
         ELSE <<>>])

\* xsltTemplate(transformNode, outputNode) on context heap[this]: whether
\* the template fired, the heap with the context xsltMatch cloned, and what
\* the body appended to the output node.
xsltTemplate(heap, this, transformNode) ==
  LET match == transformNode.match
      mode == OrElse(transformNode.mode, JsNull)
      tested == /\ Truthy(match)
                /\ \/ Truthy(mode) /\ mode = heap[this].mode
                   \/ ~Truthy(mode) /\ ~Truthy(heap[this].mode)
      heap1 == IF tested
               THEN Append(heap, clone(heap, this,
                           [contextNode |-> xsltMatchNode(heap, this)]))
               ELSE heap
      fired == tested /\ xsltMatch(heap, this, match)
  IN [returned |-> fired, contexts |-> heap1,
      appended |-> IF fired THEN processChildNodes(transformNode.childNodes)
                   ELSE <<>>]

TypeError(message) == [name |-> "TypeError", message |-> message]

\* sortNodes(transformNode) on a context with that node list: what it throws
\* (Null when it returns) and the node list it leaves.  Without xsl:sort
\* child it returns at once.  With one, the callback that computes the keys
\* of the first node names its parameter sortItem as the item it fills, so
\* sortItem.key is read from the { select, type, order } record and push is
\* called on undefined.  On an empty node list the method gets to its last
\* statement, this.setNode(0), a method XsltContext does not have.
sortNodes(nodeList, transformNode) ==
  LET sort == SelectSeq(transformNode.childNodes,
                        LAMBDA child : child.nodeName = "xsl:sort")
  IN IF Len(sort) = 0 THEN [thrown |-> Null, nodeList |-> nodeList]
     ELSE IF Len(nodeList) > 0
     THEN [thrown |-> TypeError(<<"Cannot read properties of undefined",
                                  " (reading 'push')">>),
           nodeList |-> nodeList]
     ELSE [thrown |-> TypeError(<<"this.setNode is not a function">>),
           nodeList |-> <<>>]

\* A step of the apply machine leaves the run and the handler machine alone.
ApplyOnly == UNCHANGED <<runVars, handlerVars, transformVars>>

\* The input element of a call: its children are the drawn nodes.
InputElement(children) ==
  InputNode(0, ElementNode(<<"r">>, <<>>,
    [k \in 1..Len(children) |-> InputNode(k, children[k])]))

\* The state when process() dispatches the xsl:apply-templates element on
\* the context contexts[1], whose context node is the input element and
\* whose mode is the mode of the template the element stands in.
ApplyStart ==
  /\ \E c \in ApplyCalls :
       /\ at = [pc |-> "enter",
                transformRoot |-> [k \in 1..Len(c.templates) |->
                                     TemplateNode(k, c.templates[k])],
                transformNode |-> c.transformNode,
                input |-> InputElement(c.children),
                templatesByMode |-> EmptyObject,
                mode |-> JsUndefined, modeTemplateNodes |-> <<>>,
                sortContext |-> 0, i |-> 0, j |-> 0, thrown |-> Null]
       /\ contexts = <<[contextNode |-> InputElement(c.children),
                        contextPosition |-> 1,
                        nodeList |-> <<InputElement(c.children)>>,
                        variables |-> EmptyObject, mode |-> c.thisMode,
                        parent |-> 0]>>
  /\ atOut = <<>> /\ atLog = <<>>

\* xsltApplyTemplates up to its loop: the templates of the mode, the
\* candidates (xsltSelect clones the context and selects from its node),
\* the two early returns, the sort context and the xsl:with-param pre-pass,
\* which is processChildNodes with a filter no child of these elements
\* passes: it appends an empty text node when the element has no children.
XsltApplyTemplates ==
  /\ ApplyOnly
  /\ at # Null /\ at.pc = "enter"
  /\ LET mode == OrElse(at.transformNode.mode, JsUndefined)
         cache == getTemplateNodes(at.templatesByMode, at.transformRoot, mode)
         modeTemplateNodes ==
           cache[IF mode = JsUndefined THEN "_default" ELSE mode]
         selected == Truthy(at.transformNode.select)
         heap1 == IF selected
                  THEN Append(contexts, clone(contexts, 1,
                         [contextNode |-> contexts[1].contextNode]))
                  ELSE contexts
         contextNodes ==
           IF selected
           THEN select(at.transformNode.select, contexts[1].contextNode)
           ELSE contexts[1].contextNode.childNodes
         sortContext == clone(heap1, 1,
           [contextNode |-> contextNodes[1], contextPosition |-> 1,
            nodeList |-> contextNodes])
     IN IF Len(modeTemplateNodes) = 0
        THEN /\ at' = [at EXCEPT !.pc = "returned", !.templatesByMode = cache,
                                 !.mode = mode]
             /\ UNCHANGED <<contexts, atOut>>
        ELSE IF Len(contextNodes) = 0
        THEN /\ at' = [at EXCEPT !.pc = "returned", !.templatesByMode = cache,
                                 !.mode = mode,
                                 !.modeTemplateNodes = modeTemplateNodes]
             /\ contexts' = heap1
             /\ UNCHANGED atOut
        ELSE /\ at' = [at EXCEPT !.pc = "loop", !.templatesByMode = cache,
                                 !.mode = mode,
                                 !.modeTemplateNodes = modeTemplateNodes,
                                 !.sortContext = Len(heap1) + 1,
                                 !.i = 1, !.j = 1]
             /\ contexts' = Append(heap1, sortContext)
             /\ atOut' = IF Len(at.transformNode.childNodes) = 0
                         THEN Append(atOut, TextNode(<<>>)) ELSE atOut
  /\ UNCHANGED atLog

\* One turn of the inner loop: the candidate's context is cloned from the
\* sort context and process() dispatches the template on it.  A template
\* that fires ends the inner loop (processed = true; break), and the copy
\* after the loop is skipped.
ApplyTemplatesProcess ==
  /\ ApplyOnly
  /\ at # Null /\ at.pc = "loop"
  /\ at.i <= Len(contexts[at.sortContext].nodeList)
  /\ at.j <= Len(at.modeTemplateNodes)
  /\ LET sortContext == contexts[at.sortContext]
         contextNode == sortContext.nodeList[at.i]
         context == clone(contexts, at.sortContext,
           [contextNode |-> contextNode, contextPosition |-> at.i,
            variables |-> sortContext.variables, mode |-> at.mode])
         heap1 == Append(contexts, context)
         modeTemplateNode == at.modeTemplateNodes[at.j]
         r == xsltTemplate(heap1, Len(heap1), modeTemplateNode)
     IN /\ contexts' = r.contexts
        /\ atOut' = atOut \o r.appended
        /\ atLog' = Append(atLog, [op |-> "process", node |-> contextNode.id,
                                   template |-> modeTemplateNode.id,
                                   returned |-> r.returned])
        /\ at' = IF r.returned
                 THEN [at EXCEPT !.i = at.i + 1, !.j = 1]
                 ELSE [at EXCEPT !.j = at.j + 1]

\* $$(outputNode).copy(srcNode) for a text node.
copyText(srcNode) == createTextNode(textContent(srcNode))

\* The inner loop ended without a template firing: a text node is copied.
ApplyTemplatesCopy ==
  /\ ApplyOnly
  /\ at # Null /\ at.pc = "loop"
  /\ at.i <= Len(contexts[at.sortContext].nodeList)
  /\ at.j > Len(at.modeTemplateNodes)
  /\ LET contextNode == contexts[at.sortContext].nodeList[at.i] IN
       IF contextNode.nodeType = "text"
       THEN /\ atOut' = Append(atOut, copyText(contextNode))
            /\ atLog' = Append(atLog, [op |-> "copy", node |-> contextNode.id,
                                       out |-> Len(atOut) + 1])
       ELSE UNCHANGED <<atOut, atLog>>
  /\ at' = [at EXCEPT !.i = at.i + 1, !.j = 1]
  /\ UNCHANGED contexts

\* After the outer loop: sortContext.sortNodes(transformNode), and the
\* method returns, or the exception leaves it.
ApplyTemplatesSort ==
  /\ ApplyOnly
  /\ at # Null /\ at.pc = "loop"
  /\ at.i > Len(contexts[at.sortContext].nodeList)
  /\ LET r == sortNodes(contexts[at.sortContext].nodeList, at.transformNode) IN
       /\ contexts' = [contexts EXCEPT ![at.sortContext].nodeList = r.nodeList]
       /\ at' = [at EXCEPT !.pc = IF r.thrown = Null THEN "returned" ELSE "threw",
                           !.thrown = r.thrown]
  /\ atLog' = Append(atLog, [op |-> "sortNodes"])
  /\ UNCHANGED atOut

NextApply ==
  \/ XsltApplyTemplates
  \/ ApplyTemplatesProcess
  \/ ApplyTemplatesCopy
  \/ ApplyTemplatesSort

\* The specification of one call of xsltApplyTemplates.
InitApply == ApplyStart /\ ParkRun /\ ParkHandler /\ ParkTransform

SpecApply == InitApply /\ [][NextApply]_vars

-----------------------------------------------------------------------------
(* What the claims on apply-templates speak of *)

\* The call has returned or thrown.
ApplyOver == at # Null /\ at.pc \in {"returned", "threw"}

\* The XPath meaning of the patterns of this model: whether the pattern
\* selects the node among the children of its parent.
PatternSelects(pattern, node) ==
  \/ /\ pattern \in {"a", "b", "n"}
     /\ node.nodeType = "element" /\ node.nodeName = <<pattern>>
  \/ pattern = "*" /\ node.nodeType = "element"
  \/ pattern = "text()" /\ node.nodeType = "text"

\* The candidates of the call, in document order: the children of the
\* context node, or those of them the select attribute selects.
Candidates ==
  IF at.transformNode.select = NoAttr THEN at.input.childNodes
  ELSE SelectSeq(at.input.childNodes,
                 LAMBDA n : PatternSelects(at.transformNode.select, n))

\* The template is one of the requested mode: it has the mode attribute of
\* the xsl:apply-templates element, or both have none.
OfRequestedMode(template) ==
  template.match # NoAttr /\ template.mode = at.transformNode.mode

Fired(event) == event.op = "process" /\ event.returned

FiredFor(node) ==
  \E k \in 1..Len(atLog) : Fired(atLog[k]) /\ atLog[k].node = node.id

C4_ModeEqualNotInherited ==
  at # Null =>
    /\ \A k \in 1..Len(atLog) : Fired(atLog[k]) =>
         at.transformRoot[atLog[k].template].mode = at.transformNode.mode
    /\ (ApplyOver /\ at.transformNode.mode = NoAttr) =>
         \A c \in 1..Len(Candidates) :
           (\E u \in 1..Len(at.transformRoot) :
              /\ at.transformRoot[u].mode = NoAttr
              /\ PatternSelects(at.transformRoot[u].match, Candidates[c]))
           => \E k \in 1..Len(atLog) :
                /\ Fired(atLog[k]) /\ atLog[k].node = Candidates[c].id
                /\ at.transformRoot[atLog[k].template].mode = NoAttr

\* C4 witness: the element without mode was executed in a context of mode
\* x, the transform has a template of mode x that selects a candidate, and
\* a template without mode fired for that candidate.
C4_Witness ==
  /\ ApplyOver
  /\ contexts[1].mode = "x" /\ at.transformNode.mode = NoAttr
  /\ \E k \in 1..Len(atLog), u \in 1..Len(at.transformRoot) :
       /\ Fired(atLog[k])
       /\ at.transformRoot[atLog[k].template].mode = NoAttr
       /\ at.transformRoot[u].mode = "x"
       /\ PatternSelects(at.transformRoot[u].match,
                         at.input.childNodes[atLog[k].node])

\* C5: once the call is over, for every text-node candidate for which no
\* template fired (no template of the requested mode selects it, or the
\* requested mode has no templates), the output node got a text node that
\* holds exactly the text of the candidate.
C5_UnconsumedTextCopied ==
  ApplyOver =>
    \A c \in 1..Len(Candidates) :
      (Candidates[c].nodeType = "text" /\ ~FiredFor(Candidates[c])) =>
        \E k \in 1..Len(atLog) :
          /\ atLog[k].op = "copy" /\ atLog[k].node = Candidates[c].id
          /\ atOut[atLog[k].out] = TextNode(Candidates[c].nodeValue)

-----------------------------------------------------------------------------
(* The order xsl:sort asks for *)

\* The UTF-16 code unit of a character of this model's alphabet.
charCode(c) ==
  CASE c = " " -> 32
    [] c \in {Digit(k) : k \in 0..9} -> 48 + (CHOOSE k \in 0..9 : Digit(k) = c)
    [] c = "T" -> 84
    [] c = "a" -> 97
    [] c = "t" -> 116
    [] c = "u" -> 117
    [] OTHER -> 0

\* s < t for two strings: the order of the first differing code unit, a
\* proper prefix coming first.
RECURSIVE StrLess(_, _)
StrLess(s, t) ==
  IF t = <<>> THEN FALSE
  ELSE IF s = <<>> THEN TRUE
  ELSE IF charCode(Head(s)) # charCode(Head(t))
  THEN charCode(Head(s)) < charCode(Head(t))
  ELSE StrLess(Tail(s), Tail(t))

\* Number(s) for a string of decimal digits (the empty string gives 0).
RECURSIVE ToNumber(_)
ToNumber(s) ==
  IF s = <<>> THEN 0
  ELSE 10 * ToNumber(SubSeq(s, 1, Len(s) - 1)) + (charCode(s[Len(s)]) - 48)

\* Whether node c comes before node d under the xsl:sort elements: the
\* keys are the string values of the nodes (select "."), compared as text
\* or as numbers, ascending or descending; on equal keys the next xsl:sort
\* decides, and document order after the last.
RECURSIVE SortsBefore(_, _, _)
SortsBefore(c, d, sort) ==
  IF sort = <<>> THEN c.id < d.id
  ELSE LET number == Head(sort).dataType = "number"
           descending == Head(sort).order = "descending"
           less == IF number
                   THEN ToNumber(textContent(c)) < ToNumber(textContent(d))
                   ELSE StrLess(textContent(c), textContent(d))
           greater == IF number
                      THEN ToNumber(textContent(d)) < ToNumber(textContent(c))
                      ELSE StrLess(textContent(d), textContent(c))
       IN IF less THEN ~descending
          ELSE IF greater THEN descending
          ELSE SortsBefore(c, d, Tail(sort))

\* The candidates in the order the call visited them: the nodes of the
\* process and copy events.
Visits == SelectSeq(atLog, LAMBDA e : e.op \in {"process", "copy"})

\* C10: apply-templates processes its candidates in document order when it
\* has no xsl:sort child, and in the order of its xsl:sort children when it
\* has them; then the sort is applied before the first candidate is
\* processed, and the call returns.
C10_CandidatesInSortOrder ==
  ApplyOver =>
    LET sort == SelectSeq(at.transformNode.childNodes,
                          LAMBDA child : child.nodeName = "xsl:sort")
    IN /\ \A p, q \in 1..Len(Visits) :
            (p < q /\ Visits[p].node # Visits[q].node) =>
              SortsBefore(at.input.childNodes[Visits[p].node],
                          at.input.childNodes[Visits[q].node], sort)
       /\ sort # <<>> =>
            /\ at.thrown = Null
            /\ \A p, q \in 1..Len(atLog) :
                 (atLog[p].op = "sortNodes" /\ atLog[q].op # "sortNodes")
                   => p < q

-----------------------------------------------------------------------------
(* The scope machine: contexts made by clone, setVariable and getVariable *)

MaxContexts == 3    \* contexts of one chain of clones

\* Variable names: an ordinary one and one that every JavaScript object
\* inherits from Object.prototype.
VariableNames == {"x", "constructor"}
ObjectPrototype == {"constructor"}

\* The name and the values xsl:variable hands to setVariable here.
BoundNames == {"x"}
VariableValues == {Str(<<"a">>), Str(<<"1">>)}

\* object[name] for an object made by {} or copied into one: the own
\* property, else the property Object.prototype has under that name, else
\* undefined.
Property(object, name) ==
  IF name \in DOMAIN object THEN object[name]
  ELSE IF name \in ObjectPrototype THEN [t |-> "function", v |-> "Object"]
  ELSE Undefined

\* The value setVariable stores: 'true' and 'false' become booleans, a
\* string of digits a number, any other value stays.
Coerced(value) ==
  IF value.t # "string" THEN value
  ELSE IF value.v = <<"t", "r", "u", "e">> THEN [t |-> "boolean", v |-> TRUE]
  ELSE IF value.v = <<"f", "a", "l", "s", "e">>
  THEN [t |-> "boolean", v |-> FALSE]
  ELSE IF value.v # <<>>
          /\ \A k \in 1..Len(value.v) : value.v[k] \in {Digit(d) : d \in 0..9}
  THEN [t |-> "number", v |-> value.v]
  ELSE value

\* setVariable(name, value): the variables of the context afterwards.
setVariable(variables, name, value) ==
  (name :> Coerced(value)) @@ variables

\* getVariable(name) on heap[this] (options.localOnly not set).
RECURSIVE getVariable(_, _, _)
getVariable(heap, this, name) ==
  IF Property(heap[this].variables, name) # Undefined
  THEN Property(heap[this].variables, name)
  ELSE IF heap[this].parent # 0
  THEN getVariable(heap, heap[this].parent, name)
  ELSE Null

\* A step of the scope machine leaves the run and the apply machine alone.
ScopeOnly == UNCHANGED <<runVars, applyVars, transformVars>>

\* The root context XSLT.process constructs: its variables are the params.
RootContext(params) ==
  [contextNode |-> InputElement(<<>>), contextPosition |-> 1,
   nodeList |-> <<InputElement(<<>>)>>, variables |-> params,
   mode |-> JsNull, parent |-> 0]

InitScope ==
  /\ \E params \in {EmptyObject, [x |-> Str(<<"p">>)]} :
       contexts = <<RootContext(params)>>
  /\ call = Null /\ result = Null
  /\ ParkRun /\ ParkApply /\ ParkTransform

\* this.clone(options), with the variables handed on (as xsltApplyTemplates
\* does) or without.
Clone(this, handOn) ==
  /\ ScopeOnly
  /\ Len(contexts) < MaxContexts
  /\ contexts' = Append(contexts, clone(contexts, this,
       IF handOn THEN [variables |-> contexts[this].variables]
       ELSE EmptyObject))
  /\ call' = [op |-> "clone", this |-> this]
  /\ result' = [t |-> "context", v |-> Len(contexts) + 1]

SetVariable(this, name, value) ==
  /\ ScopeOnly
  /\ contexts' = [contexts EXCEPT
       ![this].variables = setVariable(contexts[this].variables, name, value)]
  /\ call' = [op |-> "setVariable", this |-> this, name |-> name]
  /\ result' = Undefined

GetVariable(this, name) ==
  /\ ScopeOnly
  /\ call' = [op |-> "getVariable", this |-> this, name |-> name]
  /\ result' = getVariable(contexts, this, name)
  /\ UNCHANGED contexts

CloneStep == \E this \in 1..Len(contexts), handOn \in BOOLEAN :
  Clone(this, handOn)
SetVariableStep ==
  \E this \in 1..Len(contexts), name \in BoundNames,
     value \in VariableValues : SetVariable(this, name, value)
GetVariableStep ==
  \E this \in 1..Len(contexts), name \in VariableNames :
    GetVariable(this, name)

NextScope ==
  \/ CloneStep
  \/ SetVariableStep
  \/ GetVariableStep

\* The specification of the contexts of one run and their variables.
SpecScope == InitScope /\ [][NextScope]_vars

\* The value bound to the name in the nearest context of the chain, from
\* the context through its parents, whose own variables define the name;
\* null when none does.
RECURSIVE NearestBinding(_, _, _)
NearestBinding(heap, this, name) ==
  IF name \in DOMAIN heap[this].variables THEN heap[this].variables[name]
  ELSE IF heap[this].parent = 0 THEN Null
  ELSE NearestBinding(heap, heap[this].parent, name)

\* C6: getVariable(x) on a context returns the value bound in the nearest
\* context of its parent chain whose own variables define x, or null if
\* none defines it; the chain is acyclic (a parent was created before its
\* clone), so the lookup terminates.
C6_NearestBindingOrNull ==
  /\ \A c \in 1..Len(contexts) : contexts[c].parent < c
  /\ (call # Null /\ call.op = "getVariable") =>
       result = NearestBinding(contexts, call.this, call.name)

-----------------------------------------------------------------------------
(* The handler machine: one call of xsltCopyOf, passThrough or xsltForEach  *)
(* on a drawn context node and transform node, and what it appended to the *)
(* output node or threw.                                                   *)

DocumentNode(children) == [nodeType |-> "document", childNodes |-> children]

\* srcNode.nodeName.startsWith('xmlns'); the prefix xmlns is one token.
IsXmlns(nodeName) == StartsAt(nodeName, 1, <<"xmlns">>)

\* $$(destNode).copyDeep(srcNode): the nodes appended to destNode.  copy
\* makes the text node with createTextNode and the element by its name;
\* the attributes other than xmlns* and the children follow.
RECURSIVE copyDeep(_)
copyDeep(srcNode) ==
  IF srcNode.nodeType = "document"
  THEN Concat([k \in 1..Len(srcNode.childNodes) |->
         IF srcNode.childNodes[k].nodeType = "element"
         THEN copyDeep(srcNode.childNodes[k]) ELSE <<>>])
  ELSE IF srcNode.nodeType = "text"
  THEN <<createTextNode(textContent(srcNode))>>
  ELSE <<ElementNode(srcNode.nodeName,
           SelectSeq(srcNode.attributes, LAMBDA a : ~IsXmlns(a.nodeName)),
           Concat([k \in 1..Len(srcNode.childNodes) |->
                     copyDeep(srcNode.childNodes[k])]))>>

\* xsltCopyOf(transformNode, outputNode) on a context with that context
\* node: the nodes appended to outputNode.  Several selected nodes are
\* copied deep; a single one gives a text node with its text content.
xsltCopyOf(contextNode, transformNode) ==
  IF ~Truthy(transformNode.select) THEN <<>>
  ELSE LET contextNodes == select(transformNode.select, contextNode) IN
       IF Len(contextNodes) > 1
       THEN Concat([k \in 1..Len(contextNodes) |-> copyDeep(contextNodes[k])])
       ELSE IF Len(contextNodes) = 1
       THEN <<createTextNode(textContent(contextNodes[1]))>>
       ELSE <<>>

\* The children of the input document element of the xsl:copy-of calls:
\* <b x="1"/>, a text node, <c xmlns:p="u">t</c>.
CopyKinds ==
  {ElementNode(<<"b">>, <<Attr(<<"x">>, <<"1">>)>>, <<>>),
   TextNode(<<"t">>),
   ElementNode(<<"c">>, <<Attr(<<"xmlns", ":", "p">>, <<"u">>)>>,
               <<TextNode(<<"t">>)>>)}

\* The calls: the context node is the input document (as in the template
\* match="/") or its document element a.
CopyOfCalls ==
  {[op |-> "xsltCopyOf", transformNode |-> [select |-> sel],
    contextNode |-> IF atRoot
                    THEN DocumentNode(<<ElementNode(<<"a">>, <<>>, children)>>)
                    ELSE ElementNode(<<"a">>, <<>>, children)] :
     sel \in {NoAttr, "*", "text()", "b"}, atRoot \in BOOLEAN,
     children \in SeqsUpTo(CopyKinds, MaxNodes)}

-----------------------------------------------------------------------------
(* resolveExpression and passThrough *)

MaxParts == 3     \* parts of an attribute value of a literal result element

\* The index of the first brace of value at or after i, or 0.
FirstBrace(value, i) ==
  LET braces == {k \in i..Len(value) : value[k] \in {"{", "}"}} IN
  IF braces = {} THEN 0 ELSE CHOOSE k \in braces : \A m \in braces : k <= m

\* (/\{[^}]+\}/).test(value)
TestBraces(value) ==
  \E i \in 1..Len(value) :
    /\ value[i] = "{" /\ i < Len(value) /\ value[i + 1] # "}"
    /\ \E j \in (i + 2)..Len(value) : value[j] = "}"

\* value.match(/^(.*?)\{([^{}]+)\}(.*)$/): the leftmost { that is followed
\* by one or more characters other than braces and then by }; Null when
\* there is none (the values hold no line break).
MatchBraces(value) ==
  LET opens == {i \in 1..Len(value) :
                  /\ value[i] = "{" /\ i < Len(value)
                  /\ value[i + 1] \notin {"{", "}"}
                  /\ FirstBrace(value, i + 1) # 0
                  /\ value[FirstBrace(value, i + 1)] = "}"}
  IN IF opens = {} THEN Null
     ELSE LET i == CHOOSE k \in opens : \A m \in opens : k <= m
              j == FirstBrace(value, i + 1)
          IN [leftSide |-> SubSeq(value, 1, i - 1),
              xPath |-> SubSeq(value, i + 1, j - 1),
              rightSide |-> SubSeq(value, j + 1, Len(value))]

\* processWhitespace(value) without context element, the policy strip:
\* value.replace(/(^[ \r\n\t\f]+|[ \r\n\t](?=[\s\r\n\t\f]+)|[ \r\n\t\f]+$)/g, '')
stripWhitespace(value) ==
  LET ws == {" ", "\r", "\n", "\t", "\f"}
      removed(k) ==
        /\ value[k] \in ws
        /\ \/ \A m \in 1..k : value[m] \in ws
           \/ \A m \in k..Len(value) : value[m] \in ws
           \/ value[k] # "\f" /\ k < Len(value) /\ value[k + 1] \in ws
  IN Concat([k \in 1..Len(value) |->
               IF removed(k) THEN <<>> ELSE <<value[k]>>])

\* $$(contextNode).select(xPath, context, { type: STRING_TYPE }) for the
\* expressions of this model: the string value of the context node, of its
\* attribute x, of the variable v as XPathVariableResolver finds it from the
\* context (null gives the empty string).
XPathString(xPath, contextNode, heap, this) ==
  CASE xPath = <<".">> -> textContent(contextNode)
    [] xPath = <<"@", "x">> ->
         Concat([k \in 1..Len(contextNode.attributes) |->
                   IF contextNode.attributes[k].nodeName = <<"x">>
                   THEN contextNode.attributes[k].nodeValue ELSE <<>>])
    [] xPath = <<"$", "v">> ->
         IF getVariable(heap, this, "v") = Null THEN <<>>
         ELSE getVariable(heap, this, "v").v
    [] OTHER -> <<>>

\* resolveExpression(transformNode, value) on the context heap[this]:
\* what it throws (Null when it returns) and the value it returns.  An
\* expression is evaluated only when it starts with . or $ (the second
\* test, (/:\/\(/).testXPath, reads a property regular expressions do not
\* have); any other is put back between its braces.
RECURSIVE resolveExpression(_, _, _)
resolveExpression(heap, this, value) ==
  IF ~TestBraces(value)
  THEN [thrown |-> Null,
        value |-> ReplaceAll(ReplaceAll(value, <<"[", "[", "[">>, <<"{">>),
                             <<"]", "]", "]">>, <<"}">>)]
  ELSE LET match == MatchBraces(value) IN
       IF match = Null
       THEN [thrown |-> TypeError(<<"Cannot read properties of null",
                                    " (reading '1')">>),
             value |-> value]
       ELSE IF match.xPath[1] \in {".", "$"}
       THEN LET heap1 == Append(heap, clone(heap, this, EmptyObject)) IN
            resolveExpression(heap, this,
              match.leftSide
                \o stripWhitespace(XPathString(match.xPath,
                     heap[this].contextNode, heap1, Len(heap1)))
                \o match.rightSide)
       ELSE resolveExpression(heap, this,
              match.leftSide \o <<"[", "[", "[">> \o match.xPath
                \o <<"]", "]", "]">> \o match.rightSide)

\* passThrough(transformNode, outputNode) for an element: what it throws
\* and the nodes it appended to outputNode.  The new element has the
\* namespace and the qualified name of the transform node, an attribute
\* for each of its attributes with the resolved value, and what
\* processChildNodes emits for its children.
passThrough(heap, this, transformNode) ==
  LET resolved == [k \in 1..Len(transformNode.attributes) |->
                     resolveExpression(heap, this,
                                       transformNode.attributes[k].nodeValue)]
  IN IF \E k \in 1..Len(resolved) : resolved[k].thrown # Null
     THEN [thrown |-> resolved[CHOOSE k \in 1..Len(resolved) :
                        /\ resolved[k].thrown # Null
                        /\ \A m \in 1..(k - 1) : resolved[m].thrown = Null
                      ].thrown,
           appended |-> <<>>]
     ELSE [thrown |-> Null,
           appended |-> <<[namespaceURI |-> transformNode.namespaceURI]
             @@ ElementNode(transformNode.nodeName,
                  [k \in 1..Len(resolved) |->
                     Attr(transformNode.attributes[k].nodeName,
                          resolved[k].value)],
                  processChildNodes(transformNode.childNodes))>>]

\* The parts the attribute values are written from: literal text, an
\* expression in braces, the doubled braces that escape a pair of braces.
AvtParts ==
  {[kind |-> "text", text |-> <<"p">>],
   [kind |-> "expr", text |-> <<"@", "x">>],
   [kind |-> "expr", text |-> <<".">>],
   [kind |-> "expr", text |-> <<"$", "v">>],
   [kind |-> "escape", text |-> <<"{", "{", "}", "}">>]}

Rendered(part) ==
  IF part.kind = "expr" THEN <<"{">> \o part.text \o <<"}">> ELSE part.text

\* The calls: a literal result element e with the attribute a, in no
\* namespace or in one, with or without a text child; the context node is
\* an element with the attribute x and a text child; the variable v is
\* bound or not.
PassThroughCalls ==
  {[op |-> "passThrough",
    transformNode |-> [namespaceURI |-> ns]
      @@ ElementNode(<<"e">>,
           <<Attr(<<"a">>, Concat([k \in 1..Len(parts) |-> Rendered(parts[k])]))>>,
           children),
    parts |-> parts,
    contextNode |-> ElementNode(<<"n">>, <<Attr(<<"x">>, x)>>,
                                <<TextNode(<<"c">>)>>),
    variables |-> variables] :
     ns \in {JsNull, "urn:u"}, parts \in SeqsUpTo(AvtParts, MaxParts),
     children \in {<<>>, <<TextNode(<<"k">>)>>},
     x \in {<<"7">>, <<" ", "7">>},
     variables \in {EmptyObject, [v |-> Str(<<"w">>)]}}

-----------------------------------------------------------------------------
(* xsltForEach *)

\* value.replace(/[ \r\n\t\f]+/g, ' '), the policy normalize of
\* processWhitespace.
RECURSIVE normalizeWhitespace(_)
normalizeWhitespace(value) ==
  LET ws == {" ", "\r", "\n", "\t", "\f"} IN
  IF value = <<>> THEN <<>>
  ELSE IF Head(value) \in ws
  THEN IF Len(value) > 1 /\ value[2] \in ws
       THEN normalizeWhitespace(Tail(value))
       ELSE <<" ">> \o normalizeWhitespace(Tail(value))
  ELSE <<Head(value)>> \o normalizeWhitespace(Tail(value))

\* xsltValueOf for select=".": the text node appended for a context node
\* whose string value is not empty (no strip-space or preserve-space
\* element is in force, so the white space is normalized).
xsltValueOf(contextNode) ==
  IF textContent(contextNode) # <<>>
  THEN <<createTextNode(normalizeWhitespace(textContent(contextNode)))>>
  ELSE <<>>

ValueOfNode == [nodeName |-> "xsl:value-of", select |-> "."]

\* processChildNodes(transformNode, outputNode) of the xsl:for-each on one
\* context node: xsltSort does nothing, xsl:value-of appends the text.
forEachBody(contextNode, childNodes) ==
  Concat([k \in 1..Len(childNodes) |->
    IF childNodes[k].nodeName = "xsl:value-of" THEN xsltValueOf(contextNode)
    ELSE <<>>])

\* xsltForEach(transformNode, outputNode) on a context with that context
\* node: what it throws and the nodes appended to outputNode.  sortNodes
\* runs on the sort context before the loop.
xsltForEach(contextNode, transformNode) ==
  IF ~Truthy(transformNode.select) THEN [thrown |-> Null, appended |-> <<>>]
  ELSE LET contextNodes == select(transformNode.select, contextNode) IN
       IF Len(contextNodes) = 0 THEN [thrown |-> Null, appended |-> <<>>]
       ELSE LET sorted == sortNodes(contextNodes, transformNode) IN
            IF sorted.thrown # Null
            THEN [thrown |-> sorted.thrown, appended |-> <<>>]
            ELSE [thrown |-> Null,
                  appended |-> Concat([k \in 1..Len(sorted.nodeList) |->
                    forEachBody(sorted.nodeList[k], transformNode.childNodes)])]

\* The contexts processChildNodes of the xsl:for-each creates on
\* heap[this]: xsltValueOf calls xsltSelect, which clones the context.
RECURSIVE forEachBodyContexts(_, _, _)
forEachBodyContexts(heap, this, childNodes) ==
  IF childNodes = <<>> THEN heap
  ELSE forEachBodyContexts(
         IF Head(childNodes).nodeName = "xsl:value-of"
         THEN Append(heap, clone(heap, this,
                [contextNode |-> heap[this].contextNode]))
         ELSE heap,
         this, Tail(childNodes))

\* The loop of xsltForEach from its turn i (counted from 1) on: the
\* context of the turn is cloned from the sort context heap[sortContext]
\* and processes the children.
RECURSIVE forEachLoop(_, _, _, _)
forEachLoop(heap, sortContext, i, childNodes) ==
  IF i > Len(heap[sortContext].nodeList) THEN heap
  ELSE LET contextNode == heap[sortContext].nodeList[i]
           context == clone(heap, sortContext,
             [contextNode |-> contextNode, contextPosition |-> i])
           heap1 == Append(heap, context)
       IN forEachLoop(forEachBodyContexts(heap1, Len(heap1), childNodes),
                      sortContext, i + 1, childNodes)

\* The contexts xsltForEach(transformNode, outputNode) creates when called
\* on heap[this]: the heap afterwards and the place of the sort context in
\* it (0 when none was made).  xsltSelect clones the context; the sort
\* context is cloned for a select that gives nodes; sortNodes with an
\* xsl:sort child clones the sort context twice for the first node and
\* then throws; else the loop clones it once for each node.
forEachContexts(heap, this, transformNode) ==
  IF ~Truthy(transformNode.select) THEN [contexts |-> heap, sortContext |-> 0]
  ELSE LET heap1 == Append(heap, clone(heap, this,
                      [contextNode |-> heap[this].contextNode]))
           contextNodes == select(transformNode.select, heap[this].contextNode)
           heap2 == Append(heap1, clone(heap1, this,
                      [contextNode |-> contextNodes[1], contextPosition |-> 1,
                       nodeList |-> contextNodes]))
           sortContext == Len(heap2)
       IN IF Len(contextNodes) = 0
          THEN [contexts |-> heap1, sortContext |-> 0]
          ELSE IF sortNodes(contextNodes, transformNode).thrown # Null
          THEN [contexts |->
                  heap2 \o <<clone(heap2, sortContext,
                                 [contextNode |-> contextNodes[1],
                                  contextPosition |-> 1,
                                  nodeList |-> <<contextNodes[1]>>]),
                             clone(heap2, sortContext, EmptyObject)>>,
                sortContext |-> sortContext]
          ELSE [contexts |-> forEachLoop(heap2, sortContext, 1,
                                         transformNode.childNodes),
                sortContext |-> sortContext]

\* The n elements of the input: 10, 2 and 30.
NumberKinds ==
  {ElementNode(<<"n">>, <<>>, <<TextNode(<<"1", "0">>)>>),
   ElementNode(<<"n">>, <<>>, <<TextNode(<<"2">>)>>),
   ElementNode(<<"n">>, <<>>, <<TextNode(<<"3", "0">>)>>)}

\* The xsl:sort children of the xsl:for-each: none, or one on ".".
SortChildren ==
  {<<>>} \cup
    {<<[nodeName |-> "xsl:sort", select |-> ".", dataType |-> d, order |-> o]>> :
       d \in {NoAttr, "number"}, o \in {NoAttr, "descending"}}

ForEachCalls ==
  {[op |-> "xsltForEach",
    transformNode |-> [select |-> sel, childNodes |-> sort \o <<ValueOfNode>>],
    contextNode |-> InputElement(children)] :
     sel \in {NoAttr, "n"}, sort \in SortChildren,
     children \in SeqsUpTo(NumberKinds, MaxNodes)}

-----------------------------------------------------------------------------
(* The handler machine *)

(* xsltSelect *)

Num(digits) == [t |-> "number", v |-> digits]
Bool(b) == [t |-> "boolean", v |-> b]

\* A result tree fragment, the value of a variable with children.
Fragment(children) == [t |-> "fragment", childNodes |-> children]

\* An array of nodes, the value of a node-set expression.
Nodes(nodes) == [t |-> "nodes", v |-> nodes]

\* The string of a sequence of characters, used as a property name.
RECURSIVE Join(_)
Join(chars) == IF chars = <<>> THEN "" ELSE Head(chars) \o Join(Tail(chars))

RECURSIVE TrimLeft(_)
TrimLeft(s) ==
  IF s # <<>> /\ IsSpaceChar(Head(s)) THEN TrimLeft(Tail(s)) ELSE s

\* The longest prefix of s without a slash, [^/]*.
RECURSIVE UpToSlash(_)
UpToSlash(s) ==
  IF s = <<>> \/ Head(s) = "/" THEN <<>>
  ELSE <<Head(s)>> \o UpToSlash(Tail(s))

\* (/^\s*\$([^/]+)/).test(select)
TestVariable(selectExpr) ==
  /\ TrimLeft(selectExpr) # <<>> /\ Head(TrimLeft(selectExpr)) = "$"
  /\ UpToSlash(Tail(TrimLeft(selectExpr))) # <<>>

\* select.replace(/^\s*\$([^/]+).*$/, '$1'): everything between the
\* dollar sign and the first slash, or the end of the expression.
SrcVariable(selectExpr) == UpToSlash(Tail(TrimLeft(selectExpr)))

\* select.replace(/^\s*\$[^/]*/, '.')
DotForVariable(selectExpr) ==
  <<".">> \o SubSeq(Tail(TrimLeft(selectExpr)), Len(SrcVariable(selectExpr)) + 1,
                    Len(Tail(TrimLeft(selectExpr))))

\* $$(node).select(xPath, context) on the expressions of the selects: a
\* path ./b selects as the shortcut b does.
XPathNodes(xPath, node) ==
  IF xPath = "./b" THEN select("b", node) ELSE select(xPath, node)

\* xsltSelect(transformNode, select) on heap[this] without a result type:
\* the value it returns.  A select that begins with a variable reference
\* looks up the variable named by all the characters up to the first slash
\* and returns its value when that is null, falsy or a primitive; for a
\* result tree fragment the children are moved to a temp element, the rest
\* of the select is evaluated there, and the children are moved back.
xsltSelect(heap, this, selectExpr) ==
  IF TestVariable(selectExpr)
  THEN LET variable == getVariable(heap, this, Join(SrcVariable(selectExpr))) IN
       IF variable.t \in {"null", "string", "number", "boolean"}
       THEN variable
       ELSE LET temp == ElementNode(<<"t", "e", "m", "p">>, <<>>,
                                    variable.childNodes)
                nodes == XPathNodes(Join(DotForVariable(selectExpr)), temp)
            IN Nodes([k \in 1..Len(nodes) |->
                 IF nodes[k] = temp
                 THEN ElementNode(<<"t", "e", "m", "p">>, <<>>, <<>>)
                 ELSE nodes[k]])
  ELSE Nodes(XPathNodes(Join(selectExpr), heap[this].contextNode))

\* The selects of the calls: $n, $n - 1, $a + $n, $f/b, $f and the path b.
SelectKinds ==
  { <<"$", "n">>, <<"$", "n", " ", "-", " ", "1">>,
    <<"$", "a", " ", "+", " ", "$", "n">>,
    <<"$", "f", "/", "b">>, <<"$", "f">>, <<"b">> }

\* The values setVariable has stored for n and a, or a fragment for f.
BoundValues == {Num(<<"0">>), Num(<<"5">>), Bool(FALSE), Str(<<"s">>)}

SelectCalls ==
  [op : {"xsltSelect"}, select : SelectKinds,
   contextNode : {InputElement(<<ElementNode(<<"b">>, <<>>, <<>>)>>)},
   variables : [n : BoundValues, a : BoundValues]
               \cup {[f |-> Fragment(<<ElementNode(<<"b">>, <<>>, <<>>),
                                       TextNode(<<"t">>)>>)]}]

(* processVariable: xsl:variable, xsl:param, xsl:with-param *)

\* !value
Falsy(value) ==
  \/ value.t \in {"null", "undefined"}
  \/ value.t = "boolean" /\ ~value.v
  \/ value.t = "string" /\ value.v = <<>>
  \/ value.t = "number" /\ \A k \in 1..Len(value.v) : value.v[k] = "0"

\* getVariable(name, { localOnly: true }) on heap[this].
getVariableLocalOnly(heap, this, name) ==
  IF Property(heap[this].variables, name) # Undefined
  THEN Property(heap[this].variables, name)
  ELSE Null

\* The options the three handlers pass to processVariable.
VariableOptions(nodeName) ==
  CASE nodeName = "xsl:param" -> [asText |-> TRUE]
    [] nodeName = "xsl:variable" -> [override |-> TRUE]
    [] nodeName = "xsl:with-param" -> [override |-> TRUE, asText |-> TRUE]

\* processVariable(transformNode, options) on heap[this]: what it throws
\* (Null when it returns) and the variables of the context afterwards.
\* The value is the fragment of the children, else the value of the select,
\* else the value already bound, else ''; it is stored when options.override
\* is set or the local binding of the name is falsy.  With options.asText a
\* node value is replaced by its text, which reads value.nodeType.
processVariable(heap, this, transformNode, options) ==
  LET override == Has(options, "override") /\ options.override
      asText == Has(options, "asText") /\ options.asText
      name == transformNode.name
      value == IF Len(transformNode.childNodes) > 0
               THEN Fragment(processChildNodes(transformNode.childNodes))
               ELSE IF transformNode.select # <<>>
               THEN xsltSelect(heap, this, transformNode.select)
               ELSE IF Property(heap[this].variables, name) # Undefined
               THEN Property(heap[this].variables, name)
               ELSE Str(<<>>)
      text == CASE value.t = "fragment" ->
                     Str(Concat([k \in 1..Len(value.childNodes) |->
                                   textContent(value.childNodes[k])]))
                [] value.t = "nodes" ->
                     Str(Concat([k \in 1..Len(value.v) |->
                                   textContent(value.v[k])]))
                [] OTHER -> value
      stored == IF asText THEN text ELSE value
  IN IF override \/ Falsy(getVariableLocalOnly(heap, this, name))
     THEN IF asText /\ value = Null
          THEN [thrown |-> TypeError(<<"Cannot read properties of null",
                                       " (reading 'nodeType')">>),
                variables |-> heap[this].variables]
          ELSE [thrown |-> Null,
                variables |->
                  setVariable(heap[this].variables, name,
                    IF stored.t = "string"
                    THEN Str(normalizeWhitespace(stored.v)) ELSE stored)]
     ELSE [thrown |-> Null, variables |-> heap[this].variables]

\* The elements that bind n: without select and children, with select $a or
\* $a - 1, with a text child.
VariableNodes ==
  [nodeName : {"xsl:param", "xsl:variable", "xsl:with-param"},
   name : {"n"},
   select : {<<>>, <<"$", "a">>, <<"$", "a", " ", "-", " ", "1">>},
   childNodes : {<<>>, <<TextNode(<<"c">>)>>}]

\* The calls: a is bound, n is unbound or bound in the same context to a
\* value setVariable stores (the empty string included).
ProcessVariableCalls ==
  [op : {"processVariable"}, transformNode : VariableNodes,
   contextNode : {InputElement(<<>>)},
   variables : [a : BoundValues]
               \cup [n : BoundValues \cup {Str(<<>>)}, a : BoundValues]]

(* xsltMatch on an input with nested elements *)

\* An input node with the path of child positions that leads to it from
\* the document, which is its identity.
PathNode(path, node) == [path |-> path] @@ node

\* The input document <r><a><b/></a><b/></r>.
MatchDocument ==
  PathNode(<<>>, DocumentNode(<<
    PathNode(<<1>>, ElementNode(<<"r">>, <<>>, <<
      PathNode(<<1, 1>>, ElementNode(<<"a">>, <<>>, <<
        PathNode(<<1, 1, 1>>, ElementNode(<<"b">>, <<>>, <<>>))>>)),
      PathNode(<<1, 2>>, ElementNode(<<"b">>, <<>>, <<>>))>>))>>))

RECURSIVE NodeAt(_, _)
NodeAt(node, path) ==
  IF path = <<>> THEN node
  ELSE NodeAt(node.childNodes[Head(path)], Tail(path))

\* The paths of the nodes of the input document.
MatchPaths == {<<>>, <<1>>, <<1, 1>>, <<1, 1, 1>>, <<1, 2>>}

\* $$(node).select(xPath, context) for a path of child steps: the shortcut
\* for one name, the XPath engine for name/name/..., both select among the
\* children by name, step after step.
RECURSIVE SelectPath(_, _)
SelectPath(nodes, xPath) ==
  LET name == Join(UpToSlash(xPath))
      children == Concat([k \in 1..Len(nodes) |->
                    SelectSeq(nodes[k].childNodes,
                              LAMBDA child : isA(child, name))])
  IN IF Len(UpToSlash(xPath)) = Len(xPath) THEN children
     ELSE SelectPath(children,
                     SubSeq(xPath, Len(UpToSlash(xPath)) + 2, Len(xPath)))

\* xsltMatch(transformNode, match) for the context node: the match is
\* selected from the parent of the context node (from the node itself when
\* it has none) and the result searched for the context node; for the
\* document as context node the document element counts as well.
xsltMatchPath(contextNode, match) ==
  LET from == IF contextNode.path = <<>> THEN contextNode
              ELSE NodeAt(MatchDocument,
                          SubSeq(contextNode.path, 1, Len(contextNode.path) - 1))
      matchNodes == SelectPath(<<from>>, match)
  IN \E k \in 1..Len(matchNodes) :
       \/ matchNodes[k].path = contextNode.path
       \/ /\ contextNode.nodeType = "document"
          /\ matchNodes[k].path = contextNode.childNodes[1].path

\* The match attributes of the templates: b, a, r, a/b, r/b, r/a/b.
MatchKinds ==
  { <<"b">>, <<"a">>, <<"r">>, <<"a", "/", "b">>, <<"r", "/", "b">>,
    <<"r", "/", "a", "/", "b">> }

MatchCalls ==
  [op : {"xsltMatch"}, match : MatchKinds,
   contextNode : {NodeAt(MatchDocument, path) : path \in MatchPaths}]

(* The variables of a context after an instruction with children *)

\* <xsl:variable name="n">c</xsl:variable> and <xsl:variable name="a"
\* select="$n"/> as children of an instruction, and a text child.
ScopedVariable ==
  [nodeType |-> "element", nodeName |-> "xsl:variable", name |-> "n",
   select |-> <<>>, childNodes |-> <<TextNode(<<"c">>)>>]
ScopedCopy ==
  [nodeType |-> "element", nodeName |-> "xsl:variable", name |-> "a",
   select |-> <<"$", "n">>, childNodes |-> <<>>]
ScopedChildren ==
  SeqsUpTo({ScopedVariable, ScopedCopy, TextNode(<<"t">>)}, MaxBody)

\* xsltTest(transformNode, test) for the tests true() and false().
xsltTest(test) == test = "true()"

\* processChildNodes(transformNode, outputNode) on heap[this], as far as
\* the variables go: every element child goes through process to its
\* handler; xsltVariable calls this.processVariable, which stores into
\* this.variables.  The variables of heap[this] afterwards.
RECURSIVE childVariables(_, _, _)
childVariables(heap, this, childNodes) ==
  IF childNodes = <<>> THEN heap[this].variables
  ELSE LET child == Head(childNodes)
           after == IF child.nodeType = "element"
                    THEN processVariable(heap, this, child,
                           VariableOptions(child.nodeName)).variables
                    ELSE heap[this].variables
       IN childVariables([heap EXCEPT ![this].variables = after], this,
                         Tail(childNodes))

\* xsltIf(transformNode, outputNode) on heap[this]: the children are
\* processed by this context when the test holds.
xsltIf(heap, this, transformNode) ==
  IF transformNode.test # NoAttr /\ xsltTest(transformNode.test)
  THEN childVariables(heap, this, transformNode.childNodes)
  ELSE heap[this].variables

\* xsltChoose(transformNode, outputNode) on heap[this]: the children of the
\* first xsl:when whose test holds, or of the xsl:otherwise reached first,
\* are processed by this context.
RECURSIVE xsltChoose(_, _, _)
xsltChoose(heap, this, childNodes) ==
  IF childNodes = <<>> THEN heap[this].variables
  ELSE LET child == Head(childNodes)
       IN IF \/ /\ child.nodeName = "xsl:when"
                /\ child.test # NoAttr /\ xsltTest(child.test)
             \/ child.nodeName = "xsl:otherwise"
          THEN childVariables(heap, this, child.childNodes)
          ELSE xsltChoose(heap, this, Tail(childNodes))

\* process(transformNode, outputNode) on heap[this] for xsl:if, xsl:choose
\* and a literal result element (passThrough, which processes the children
\* by this context as well): the variables of heap[this] afterwards.
processInstruction(heap, this, transformNode) ==
  CASE transformNode.nodeName = "xsl:if" -> xsltIf(heap, this, transformNode)
    [] transformNode.nodeName = "xsl:choose" ->
         xsltChoose(heap, this, transformNode.childNodes)
    [] OTHER -> childVariables(heap, this, transformNode.childNodes)

\* The instructions: xsl:if, xsl:choose with one xsl:when and an
\* xsl:otherwise, the literal result element e.
Instructions ==
  [nodeName : {"xsl:if"}, test : {"true()", "false()"},
   childNodes : ScopedChildren]
  \cup [nodeName : {"xsl:choose"},
        childNodes : {<<[nodeName |-> "xsl:when", test |-> test,
                         childNodes |-> children],
                        [nodeName |-> "xsl:otherwise", test |-> NoAttr,
                         childNodes |-> <<TextNode(<<"t">>)>>]>> :
                      test \in {"true()", "false()"},
                      children \in ScopedChildren}]
  \cup [nodeName : {"e"}, childNodes : ScopedChildren]

\* The calls: n is unbound or bound in the context.
InstructionCalls ==
  [op : {"process"}, transformNode : Instructions,
   contextNode : {InputElement(<<>>)},
   variables : {EmptyObject, [n |-> Str(<<"s">>)]}]

(* processWhitespace *)

\* The elements processWhitespace is asked about: e in the namespace u, e
\* in no namespace, or none (an attribute value).
SpaceElements ==
  {[namespaceURI |-> "u", localName |-> "e"],
   [namespaceURI |-> JsNull, localName |-> "e"]}

\* The keys xsltStripSpace and xsltPreserveSpace store: '{' + namespaceURI
\* + '}' + localName of each name of the elements attribute (p:e, p:*, e,
\* * with p bound to u).
SpaceKeys == {"{u}e", "{u}*", "e", "*"}

fullName(contextElement) ==
  IF contextElement.namespaceURI # JsNull
  THEN "{" \o contextElement.namespaceURI \o "}" \o contextElement.localName
  ELSE contextElement.localName

allNamespace(contextElement) ==
  IF contextElement.namespaceURI # JsNull
  THEN "{" \o contextElement.namespaceURI \o "}*"
  ELSE JsNull

\* The policy processWhitespace chooses, from cfg.stripSpaceList and
\* cfg.preserveSpaceList (the sets of their keys).
whitespacePolicy(stripSpaceList, preserveSpaceList, contextElement) ==
  IF contextElement = Null THEN "strip"
  ELSE IF \/ fullName(contextElement) \in stripSpaceList
          \/ /\ allNamespace(contextElement) # JsNull
             /\ allNamespace(contextElement) \in stripSpaceList
  THEN "strip"
  ELSE IF \/ fullName(contextElement) \in preserveSpaceList
          \/ /\ allNamespace(contextElement) # JsNull
             /\ allNamespace(contextElement) \in preserveSpaceList
  THEN "preserve"
  ELSE IF "*" \in stripSpaceList THEN "strip"
  ELSE IF "*" \in preserveSpaceList THEN "preserve"
  ELSE "normalize"

\* processWhitespace(value, contextElement) for a string.
processWhitespace(stripSpaceList, preserveSpaceList, value, contextElement) ==
  LET process == whitespacePolicy(stripSpaceList, preserveSpaceList,
                                  contextElement)
  IN CASE process = "strip" -> stripWhitespace(value)
       [] process = "preserve" -> value
       [] process = "normalize" -> normalizeWhitespace(value)

WhitespaceCalls ==
  [op : {"processWhitespace"}, value : {<<" ", "a", " ", " ", "b">>},
   contextElement : SpaceElements \cup {Null},
   stripSpaceList : SUBSET SpaceKeys, preserveSpaceList : SUBSET SpaceKeys]

(* White-space text of the transform *)

\* String.prototype.toLowerCase for the attribute values of this model.
toLowerCase(value) == IF value = "YES" THEN "yes" ELSE value

\* text.replace(/([<>'"&])/g, '[[$1]]')
WrapDelimiters(text) ==
  Concat([k \in 1..Len(text) |->
            IF text[k] \in {"<", ">", "'", "\"", "&"}
            THEN <<"[", "[", text[k], "]", "]">>
            ELSE <<text[k]>>])

\* xsltText(transformNode, outputNode): the text content goes to the output
\* as one text node, its delimiters wrapped when the element has
\* disable-output-escaping="yes".
xsltText(transformNode) ==
  LET disableOutputEscaping ==
        /\ transformNode.disableOutputEscaping # NoAttr
        /\ toLowerCase(transformNode.disableOutputEscaping) = "yes"
      text == Concat([k \in 1..Len(transformNode.childNodes) |->
                        textContent(transformNode.childNodes[k])])
  IN <<createTextNode(IF disableOutputEscaping THEN WrapDelimiters(text)
                      ELSE text)>>

\* process() of the element that holds the text: xsl:text goes to xsltText;
\* the children of any other element go through processChildNodes, which
\* emits text children itself and reads no xml:space attribute.
processTextParent(transformNode) ==
  IF transformNode.nodeName = "xsl:text" THEN xsltText(transformNode)
  ELSE processChildNodes(transformNode.childNodes)

\* Texts of white space only: a space, two spaces, a line break with its
\* indentation, a tab.
SpaceTexts == {<<" ">>, <<" ", " ">>, <<"\n", " ", " ">>, <<"\t">>}

\* The text is the only child of an xsl:text, of an xsl:template or of the
\* literal element e, with or without xml:space="preserve".
SpaceTextCalls ==
  [op : {"processText"},
   transformNode : [nodeName : {"xsl:text", "xsl:template", "e"},
                    xmlSpace : {NoAttr, "preserve"},
                    disableOutputEscaping : {NoAttr},
                    childNodes : {<<TextNode(text)>> : text \in SpaceTexts}]]

\* Texts with delimiters, with brackets, with an entity reference spelled
\* out, with two spaces.
DelimiterTexts ==
  {<<"<">>, <<"a", "<", "b", ">">>, <<"'", "a", "\"">>, <<"&">>,
   <<"&", "l", "t", ";">>, <<"<", "<">>, <<"[", "<", "]">>,
   <<"[", "[", "<">>, <<"&", "]", "]">>, <<"a", "[", "0", "]">>,
   <<"[", "[", "a", "]", "]">>, <<"a", " ", " ", "<">>, <<"a", " ", "&">>}

\* A run whose output is the text of one xsl:text.
EmitTextCalls ==
  [op : {"emitText"},
   transformNode : [nodeName : {"xsl:text"}, xmlSpace : {NoAttr},
                    disableOutputEscaping : {NoAttr, "yes", "YES", "no"},
                    childNodes : {<<TextNode(text)>> :
                                    text \in DelimiterTexts}]]

(* The shortcut of select *)

\* The characters of the class [a-zA-Z0-9\-_] that the expressions of this
\* model use.
NameChars == {"a", "b", "n", "-", "_"} \cup {Digit(k) : k \in 0..9}

\* (/^(?:[a-zA-Z0-9\-_]+:)?[a-zA-Z0-9\-_]+$/).test(xPath)
TestShortcut(xPath) ==
  LET named(s) == s # <<>> /\ \A k \in 1..Len(s) : s[k] \in NameChars
  IN \/ named(xPath)
     \/ \E c \in 1..Len(xPath) :
          /\ xPath[c] = ":"
          /\ named(SubSeq(xPath, 1, c - 1))
          /\ named(SubSeq(xPath, c + 1, Len(xPath)))

\* shortcutTest of select: the children of the node that are elements of
\* the name the expression spells.
shortcutTest(xPath, node) ==
  IF node.nodeType \in {"element", "document", "fragment"}
  THEN SelectSeq(node.childNodes, LAMBDA child : isA(child, Join(xPath)))
  ELSE <<>>

\* The expressions: the names a and b, the numbers 5 and 10, the sum 1+1.
ShortcutKinds ==
  {<<"a">>, <<"b">>, <<"5">>, <<"1", "0">>, <<"1", "+", "1">>}

ShortcutCalls ==
  [op : {"select"}, xPath : ShortcutKinds,
   contextNode : {InputElement(children) :
                    children \in SeqsUpTo({ElementNode(<<"a">>, <<>>, <<>>),
                                           ElementNode(<<"b">>, <<>>, <<>>)},
                                          MaxNodes)}]

(* isA on elements with namespaces *)

XsltNamespace == "http://www.w3.org/1999/XSL/Transform"

\* node.lookupNamespaceURI(prefix): the binding in scope at the node, which
\* the model keeps as a function from prefixes to namespace names.
lookupNamespaceURI(node, prefix) ==
  IF prefix \in DOMAIN node.bindings THEN node.bindings[prefix] ELSE JsNull

\* XPathNamespaceResolver.getNamespace(prefix, node) of a resolver made for
\* transformNode.
getNamespace(transformNode, prefix, node) ==
  IF prefix = "xsl" THEN XsltNamespace
  ELSE IF lookupNamespaceURI(transformNode, prefix) # JsNull
  THEN lookupNamespaceURI(transformNode, prefix)
  ELSE IF lookupNamespaceURI(node, prefix) # JsNull
  THEN lookupNamespaceURI(node, prefix)
  ELSE JsUndefined

\* $$(node).isA(qName, options) for an element and one qualified name, a
\* sequence of the tokens ^, prefix, : and local name.  options is Null or
\* holds the transform node of a namespace resolver.
isAQualified(node, qName, options) ==
  LET invert == qName # <<>> /\ Head(qName) = "^"
      name == IF invert THEN Tail(qName) ELSE qName
      colon == \E k \in 1..Len(name) : name[k] = ":"
      first == CHOOSE k \in 1..Len(name) :
                 name[k] = ":" /\ \A j \in 1..(k - 1) : name[j] # ":"
      prefix == IF colon THEN Join(SubSeq(name, 1, first - 1)) ELSE JsNull
      localName == IF colon THEN Join(SubSeq(name, first + 1, Len(name)))
                   ELSE Join(name)
      found == IF options # Null
               THEN getNamespace(options.namespaceResolver, prefix, node)
               ELSE lookupNamespaceURI(node, prefix)
      namespaceURI == IF found = JsNull THEN JsUndefined ELSE found
  IN IF invert
     THEN node.namespaceURI # namespaceURI \/ node.localName # localName
     ELSE node.namespaceURI = namespaceURI /\ node.localName = localName

\* The namespace declarations of the transform documents: the usual xsl
\* prefix, another prefix, both, and xsl bound to another namespace.
BindingKinds ==
  {[xsl |-> XsltNamespace], [x |-> XsltNamespace],
   [x |-> XsltNamespace, xsl |-> XsltNamespace],
   [x |-> XsltNamespace, xsl |-> "u"]}

\* The elements asked about, and the calls with and without a resolver.
QualifiedCalls ==
  {[op |-> "isA", qName |-> <<"xsl", ":", name>>,
    node |-> [nodeType |-> "element", namespaceURI |-> ns,
              localName |-> local, bindings |-> b],
    options |-> IF resolver THEN [namespaceResolver |-> [bindings |-> b]]
                ELSE Null] :
     name \in {"template", "sort"}, local \in {"template", "sort"},
     ns \in {XsltNamespace, "u"}, b \in BindingKinds,
     resolver \in BOOLEAN}

-----------------------------------------------------------------------------
(* XPathFunctionResolver.getFunction *)

\* The names getFunction answers itself when the namespace is empty.
OwnFunctions == {"current", "document", "format-number"}

\* A function name: local name and namespace URI ("" for none).
FunctionName(localName, namespaceURI) ==
  [localName |-> localName, namespaceURI |-> namespaceURI]

\* The function a resolver hands out, written as the resolver and the name.
FunctionOf(resolver, localName) == resolver \o ":" \o localName

\* this.functionResolver.getFunction(localName, namespaceURI): the next
\* resolver of the chain resolves the names listed in functionResolver.names.
chainGetFunction(functionResolver, localName, namespaceURI) ==
  IF FunctionName(localName, namespaceURI) \in functionResolver.names
  THEN FunctionOf("chain", localName)
  ELSE JsUndefined

\* context.findNamedNode(stylesheetNode, localName, {filter: 'xsl:function',
\* namespaceURI}): the xsl:function children of the transform are given by
\* their resolved names.
findNamedFunction(stylesheetFunctions, localName, namespaceURI) ==
  FunctionName(localName, namespaceURI) \in stylesheetFunctions

\* getFunction(localName, namespaceURI = '').
getFunction(localName, namespaceURI, functionResolver, stylesheetNode, stylesheetFunctions) ==
  IF namespaceURI = ""
  THEN IF localName \in OwnFunctions
       THEN FunctionOf("this", localName)
       ELSE IF functionResolver.chained
            THEN chainGetFunction(functionResolver, localName, namespaceURI)
            ELSE JsUndefined
  ELSE IF functionResolver.chained
       THEN LET fcn == chainGetFunction(functionResolver, localName,
                                        namespaceURI)
            IN IF /\ fcn = JsUndefined
                  /\ stylesheetNode
                  /\ findNamedFunction(stylesheetFunctions, localName,
                                       namespaceURI)
               THEN FunctionOf("customFunction", localName)
               ELSE JsUndefined
       ELSE JsUndefined

FunctionLocalNames == {"current", "f"}
FunctionSpaces == {"", "u"}
FunctionNameSets ==
  SUBSET {FunctionName("f", "u"), FunctionName("f", "")}

FunctionCalls ==
  {[op |-> "getFunction", localName |-> l, namespaceURI |-> u,
    functionResolver |-> [chained |-> c, names |-> IF c THEN n ELSE {}],
    stylesheetNode |-> s, stylesheetFunctions |-> f] :
     l \in FunctionLocalNames, u \in FunctionSpaces, c \in BOOLEAN,
     n \in FunctionNameSets, s \in BOOLEAN, f \in FunctionNameSets}

-----------------------------------------------------------------------------
(* XPathFunctions.formatNumber on a non-negative integer *)

\* The default decimal format.
decimalFormat ==
  [decimalSeparator |-> ".", groupingSeparator |-> ",", minusSign |-> "-",
   patternSeparator |-> ";"]

\* The first position of character c in s, or Len(s) + 1.
FirstOf(s, c) ==
  IF \E k \in 1..Len(s) : s[k] = c
  THEN CHOOSE k \in 1..Len(s) : s[k] = c /\ \A m \in 1..(k - 1) : s[m] # c
  ELSE Len(s) + 1

\* The loop over characteristicSide from its last character i to its first;
\* j digits of characteristicSrc are still to be placed (the code's j + 1).
RECURSIVE fillCharacteristic(_, _, _, _, _)
fillCharacteristic(characteristicSide, characteristicSrc, i, j, newCharacteristic) ==
  IF i < 1 THEN newCharacteristic
  ELSE
    LET digit == characteristicSide[i]
        isMinus == digit = decimalFormat.minusSign
        placed == digit \in {"0", "#"} /\ j >= 1
        filled ==
          CASE digit = "0" ->
                 (IF j >= 1 THEN <<characteristicSrc[j]>> ELSE <<digit>>)
                   \o newCharacteristic
            [] digit = "#" ->
                 (IF j >= 1 THEN <<characteristicSrc[j]>> ELSE <<>>)
                   \o newCharacteristic
            [] digit = decimalFormat.groupingSeparator ->
                 (IF j >= 1 THEN <<digit>> ELSE <<>>) \o newCharacteristic
            [] isMinus ->
                 <<digit>> \o SubSeq(characteristicSrc, 1, j)
                   \o newCharacteristic
            [] OTHER -> <<digit>> \o newCharacteristic
        j1 == IF placed THEN j - 1 ELSE j
        noMore == \A k \in 1..(i - 1) : characteristicSide[k] \notin {"0", "#"}
        overflow == (i = 1 \/ noMore) /\ j1 > 1
    IN IF isMinus THEN filled
       ELSE fillCharacteristic(characteristicSide, characteristicSrc, i - 1,
              IF overflow THEN 0 ELSE j1,
              IF overflow THEN SubSeq(characteristicSrc, 1, j1) \o filled
              ELSE filled)

\* formatNumber(xPathContext, number, format) for an integer number >= 0
\* and the default decimal format: the positive pattern is what precedes
\* the pattern separator, its integer side what precedes the decimal
\* separator; the fraction of the number is 0, so the fraction side of the
\* pattern is kept as written.
formatNumber(number, format) ==
  LET formattedNumber ==
        SubSeq(format, 1, FirstOf(format, decimalFormat.patternSeparator) - 1)
      dot == FirstOf(formattedNumber, decimalFormat.decimalSeparator)
      mantissaSide == SubSeq(formattedNumber, dot + 1, Len(formattedNumber))
      characteristicSide == SubSeq(formattedNumber, 1, dot - 1)
      characteristicSrc == DigitsOf(number)
      newCharacteristic ==
        fillCharacteristic(characteristicSide, characteristicSrc,
                           Len(characteristicSide), Len(characteristicSrc),
                           <<>>)
  IN ReplaceAll(newCharacteristic
                  \o (IF mantissaSide # <<>>
                      THEN <<decimalFormat.decimalSeparator>> \o mantissaSide
                      ELSE <<>>),
                <<"#">>, <<>>)

FormatNumbers == {0, 7, 12, 45, 123, 1234}
MaxFormat == 3
FormatChars == {"0", "#", ",", ".", "-"}
FormatCalls ==
  {[op |-> "formatNumber", number |-> n, format |-> f] :
     n \in FormatNumbers, f \in SeqsUpTo(FormatChars, MaxFormat)}

(* resolveExpression on any arrangement of braces *)

MaxValue == 3     \* characters of an attribute value
BraceChars == {"{", "}", "a", "."}
ResolveCalls ==
  [op : {"resolveExpression"}, value : SeqsUpTo(BraceChars, MaxValue),
   contextNode : {ElementNode(<<"n">>, <<>>, <<TextNode(<<"c">>)>>)}]

\* A step of the handler machine leaves the other machines alone
\* (xsltForEach, whose contexts are kept, leaves all but the contexts).
HandlerOnly == UNCHANGED <<runVars, applyVars, scopeVars, transformVars>>

\* The context a handler is called on.
HandlerContext ==
  <<[contextNode |-> call.contextNode, contextPosition |-> 1,
     nodeList |-> <<call.contextNode>>,
     variables |-> IF Has(call, "variables") THEN call.variables
                   ELSE EmptyObject,
     mode |-> JsNull, parent |-> 0]>>

InitHandler ==
  /\ call \in CopyOfCalls \cup PassThroughCalls \cup ForEachCalls
             \cup SelectCalls \cup ProcessVariableCalls \cup MatchCalls
             \cup InstructionCalls
             \cup WhitespaceCalls
             \cup SpaceTextCalls
             \cup ShortcutCalls
             \cup QualifiedCalls
             \cup FunctionCalls
             \cup FormatCalls
             \cup EmitTextCalls
             \cup ResolveCalls
  /\ result = Null
  /\ ParkRun /\ ParkApply /\ ParkScope /\ ParkTransform

XsltCopyOf ==
  /\ HandlerOnly
  /\ call.op = "xsltCopyOf" /\ result = Null
  /\ result' = [thrown |-> Null,
                appended |-> xsltCopyOf(call.contextNode, call.transformNode)]
  /\ UNCHANGED call

PassThrough ==
  /\ HandlerOnly
  /\ call.op = "passThrough" /\ result = Null
  /\ result' = passThrough(HandlerContext, 1, call.transformNode)
  /\ UNCHANGED call

XsltForEach ==
  /\ ScopeOnly
  /\ call # Null /\ call.op = "xsltForEach" /\ result = Null
  /\ LET created == forEachContexts(HandlerContext, 1, call.transformNode) IN
       /\ contexts' = created.contexts
       /\ result' = [sortContext |-> created.sortContext]
                       @@ xsltForEach(call.contextNode, call.transformNode)
  /\ UNCHANGED call

XsltSelect ==
  /\ HandlerOnly
  /\ call.op = "xsltSelect" /\ result = Null
  /\ result' = [thrown |-> Null,
                value |-> xsltSelect(HandlerContext, 1, call.select)]
  /\ UNCHANGED call

ProcessVariable ==
  /\ HandlerOnly
  /\ call.op = "processVariable" /\ result = Null
  /\ result' = processVariable(HandlerContext, 1, call.transformNode,
                                VariableOptions(call.transformNode.nodeName))
  /\ UNCHANGED call

XsltMatch ==
  /\ HandlerOnly
  /\ call.op = "xsltMatch" /\ result = Null
  /\ result' = [thrown |-> Null,
                value |-> Bool(xsltMatchPath(call.contextNode, call.match))]
  /\ UNCHANGED call

ProcessInstruction ==
  /\ HandlerOnly
  /\ call.op = "process" /\ result = Null
  /\ result' = [thrown |-> Null,
                variables |-> processInstruction(HandlerContext, 1,
                                                 call.transformNode)]
  /\ UNCHANGED call


ProcessWhitespace ==
  /\ HandlerOnly
  /\ call.op = "processWhitespace" /\ result = Null
  /\ result' = [thrown |-> Null,
                process |-> whitespacePolicy(call.stripSpaceList,
                              call.preserveSpaceList, call.contextElement),
                value |-> processWhitespace(call.stripSpaceList,
                            call.preserveSpaceList, call.value,
                            call.contextElement)]
  /\ UNCHANGED call


ProcessText ==
  /\ HandlerOnly
  /\ call.op = "processText" /\ result = Null
  /\ result' = [thrown |-> Null,
                appended |-> processTextParent(call.transformNode)]
  /\ UNCHANGED call


\* $$(node).select(xPath, context) with the result type ANY: the shortcut
\* answers when its test passes; what the XPath engine returns for the
\* other expressions is not recorded (value Undefined).
SelectShortcut ==
  /\ HandlerOnly
  /\ call.op = "select" /\ result = Null
  /\ result' = [thrown |-> Null,
                shortcut |-> TestShortcut(call.xPath),
                value |-> IF TestShortcut(call.xPath)
                          THEN Nodes(shortcutTest(call.xPath, call.contextNode))
                          ELSE Undefined]
  /\ UNCHANGED call


IsA ==
  /\ HandlerOnly
  /\ call.op = "isA" /\ result = Null
  /\ result' = [thrown |-> Null,
                value |-> Bool(isAQualified(call.node, call.qName,
                                            call.options))]
  /\ UNCHANGED call


GetFunction ==
  /\ HandlerOnly
  /\ call.op = "getFunction" /\ result = Null
  /\ result' = [thrown |-> Null,
                fcn |-> getFunction(call.localName, call.namespaceURI,
                                    call.functionResolver,
                                    call.stylesheetNode,
                                    call.stylesheetFunctions)]
  /\ UNCHANGED call


FormatNumber ==
  /\ HandlerOnly
  /\ call.op = "formatNumber" /\ result = Null
  /\ result' = [thrown |-> Null,
                value |-> formatNumber(call.number, call.format)]
  /\ UNCHANGED call

\* xsltText as the only instruction of the root template, then the
\* serialization of the fragment and the replacements of XSLT.process.
EmitText ==
  /\ HandlerOnly
  /\ call.op = "emitText" /\ result = Null
  /\ result' = [thrown |-> Null,
                appended |-> xsltText(call.transformNode),
                xml |-> PostProcess(serializeToString(
                                      xsltText(call.transformNode)))]
  /\ UNCHANGED call


ResolveExpression ==
  /\ HandlerOnly
  /\ call.op = "resolveExpression" /\ result = Null
  /\ result' = resolveExpression(HandlerContext, 1, call.value)
  /\ UNCHANGED call

NextHandler ==
  \/ ResolveExpression
  \/ EmitText
  \/ FormatNumber
  \/ GetFunction
  \/ IsA
  \/ SelectShortcut
  \/ ProcessText
  \/ ProcessWhitespace
  \/ XsltSelect
  \/ ProcessInstruction
  \/ XsltMatch
  \/ ProcessVariable
  \/ XsltCopyOf
  \/ PassThrough
  \/ XsltForEach

\* The specification of one handler call.
SpecHandler == InitHandler /\ [][NextHandler]_vars

-----------------------------------------------------------------------------
(* The transform machine: one call of xsltTransform, from the include       *)
(* pre-pass to the return, with what it binds, caches and fires.            *)

\* Top-level children of the transform element: xsl:output, xsl:variable,
\* the template match="/" and a template that matches the document element
\* of the input, each with a text body or with an xsl:apply-templates body.
TransformKinds ==
  [nodeName : {"xsl:output", "xsl:variable"}]
    \cup [nodeName : {"xsl:template"}, match : {"/", "r"},
          body : {"text", "apply-templates"}]

IsTemplate(child) == child.nodeName = "xsl:template"
IsVariable(child) == child.nodeName = "xsl:variable"

\* A step of the transform machine leaves the other machines alone.
TransformOnly ==
  UNCHANGED <<runVars, applyVars, scopeVars, handlerVars, inc, dom, procs>>

\* The state when process() dispatches the transform element.
InitTransform ==
  /\ \E childNodes \in SeqsUpTo(TransformKinds, MaxTop + 1) :
       xt = [childNodes |-> childNodes, pc |-> "includes", i |-> 0,
             variables |-> {}, templatesByMode |-> {}, log |-> <<>>]
  /\ inc = Null /\ dom = Null /\ procs = Null
  /\ ParkRun /\ ParkApply /\ ParkScope /\ ParkHandler

\* await this.processIncludes(transformNode): these transforms have no
\* xsl:include and no xsl:import, the pre-pass changes nothing.
TransformIncludes ==
  /\ TransformOnly
  /\ xt.pc = "includes"
  /\ xt' = [xt EXCEPT !.pc = "loop", !.i = 1,
                      !.log = Append(@, [op |-> "processIncludes"])]

\* One turn of the loop of xsltTransform over the children: xsl:variable is
\* bound, the template match="/" has its children processed and
\* xsltTransform returns after it, another template is passed over.
TransformLoop ==
  /\ TransformOnly
  /\ xt.pc = "loop" /\ xt.i <= Len(xt.childNodes)
  /\ LET child == xt.childNodes[xt.i] IN
       xt' = CASE IsVariable(child) ->
                    [xt EXCEPT !.variables = @ \cup {xt.i}, !.i = @ + 1,
                               !.log = Append(@, [op |-> "xsltVariable",
                                                  child |-> xt.i])]
               [] IsTemplate(child) /\ child.match = "/" ->
                    [xt EXCEPT !.pc = "rootBody"]
               [] OTHER -> [xt EXCEPT !.i = @ + 1]

\* The loop found no template match="/":
\* processChildNodes(transformNode, outputNode, { ignoreText: true }).
TransformNoRoot ==
  /\ TransformOnly
  /\ xt.pc = "loop" /\ xt.i > Len(xt.childNodes)
  /\ xt' = IF Len(xt.childNodes) = 0 THEN [xt EXCEPT !.pc = "returned"]
           ELSE [xt EXCEPT !.pc = "children", !.i = 1]

\* One child dispatched by that processChildNodes: xsltVariable binds the
\* variable again, xsltTemplate fires on the document element.
TransformChild ==
  /\ TransformOnly
  /\ xt.pc = "children"
  /\ xt' = IF xt.i > Len(xt.childNodes) THEN [xt EXCEPT !.pc = "returned"]
           ELSE CASE IsVariable(xt.childNodes[xt.i]) ->
                       [xt EXCEPT !.i = @ + 1,
                                  !.log = Append(@, [op |-> "xsltVariable",
                                                     child |-> xt.i])]
                  [] IsTemplate(xt.childNodes[xt.i]) ->
                       [xt EXCEPT !.pc = "templateBody"]
                  [] OTHER -> [xt EXCEPT !.i = @ + 1]

\* The body of the fired template: processChildNodes(templateNode,
\* outputNode).  An xsl:apply-templates in it calls getTemplateNodes, which
\* builds the list of the templates of the mode when the cache has none.
TransformBody ==
  /\ TransformOnly
  /\ xt.pc \in {"rootBody", "templateBody"}
  /\ LET child == xt.childNodes[xt.i]
         body == [op |-> "processChildNodes", child |-> xt.i]
         build == child.body = "apply-templates"
                    /\ "_default" \notin xt.templatesByMode
     IN xt' = [xt EXCEPT
                 !.log = IF build
                         THEN @ \o <<body, [op |-> "getTemplateNodes"]>>
                         ELSE Append(@, body),
                 !.templatesByMode = IF build THEN @ \cup {"_default"} ELSE @,
                 !.pc = IF xt.pc = "rootBody" THEN "returned" ELSE "children",
                 !.i = IF xt.pc = "rootBody" THEN @ ELSE @ + 1]

NextTransform ==
  \/ TransformIncludes
  \/ TransformLoop
  \/ TransformNoRoot
  \/ TransformChild
  \/ TransformBody

\* The specification of one call of xsltTransform.
SpecTransform == InitTransform /\ [][NextTransform]_vars

-----------------------------------------------------------------------------
(* The include machine: one call of processIncludes, with xsltInclude and   *)
(* xsltImport.  The loop reads transformNode.childNodes[i] of the live      *)
(* list and never looks back: the state keeps the children before index i   *)
(* as a set and the children from index i on as a list.  A child of the     *)
(* transform element carries its position there as id; the nodes copied     *)
(* from a fetched document carry id 0.                                      *)

URLs == {"A", "B"}

TemplateOf(url, id) == [nodeName |-> "xsl:template", of |-> url, id |-> id]
IncludeOf(nodeName, href, id) ==
  [nodeName |-> nodeName, href |-> href, id |-> id]

IsInclude(node) == node.nodeName \in {"xsl:include", "xsl:import"}

\* The children of the document element of a fetchable document: templates
\* of its own and xsl:include elements for the other document.
DocChildren(url) ==
  SeqsUpTo({TemplateOf(url, 0)}
             \cup {IncludeOf("xsl:include", other, 0) : other \in URLs \ {url}},
           MaxTop)

\* The children of the transform element when the pre-pass starts.
\* Each is a node name with the href attribute: a template, an xsl:include
\* or an xsl:import of one of the documents.
IncludeKinds ==
  {<<"xsl:template", NoAttr>>} \cup ({"xsl:include", "xsl:import"} \X URLs)

TransformChildren(kinds) ==
  [k \in 1..Len(kinds) |->
     IF kinds[k][1] = "xsl:template" THEN TemplateOf("transform", k)
     ELSE IncludeOf(kinds[k][1], kinds[k][2], k)]

\* A step of the include machine leaves the other machines alone.
IncludeOnly ==
  UNCHANGED <<runVars, applyVars, scopeVars, handlerVars, xt, dom, procs>>

\* The state when xsltTransform calls processIncludes(transformNode).
InitIncludes ==
  /\ \E docs \in [URLs -> UNION {DocChildren(url) : url \in URLs}] :
     \E kinds \in SeqsUpTo(IncludeKinds, MaxTop) :
       /\ \A url \in URLs : docs[url] \in DocChildren(url)
       /\ inc = [docs |-> docs, childNodes |-> TransformChildren(kinds),
                 before |-> {}, rest |-> TransformChildren(kinds),
                 pc |-> "loop"]
  /\ xt = Null /\ dom = Null /\ procs = Null
  /\ ParkRun /\ ParkApply /\ ParkScope /\ ParkHandler

\* The index moves on: childNodes[i] joins the children before i.
Advance(before, list) ==
  IF list = <<>> THEN [before |-> before, rest |-> <<>>]
  ELSE [before |-> before \cup {Head(list)}, rest |-> Tail(list)]

\* One turn of the loop of processIncludes on a child that is neither
\* xsl:include nor xsl:import.
IncludesChild ==
  /\ IncludeOnly
  /\ inc.pc = "loop" /\ inc.rest # <<>> /\ ~IsInclude(Head(inc.rest))
  /\ inc' = [inc EXCEPT !.before = Advance(inc.before, inc.rest).before,
                         !.rest = Advance(inc.before, inc.rest).rest]

\* One turn of the loop on an xsl:include or xsl:import, xsltInclude and
\* the i++ after it.  Without href the element is skipped.  Else the href is
\* removed, the document fetched and parsed, its document element copied,
\* and the children of the copy are moved before the element (include) or
\* to the end of its parent (import); the element is removed.  The loop
\* then goes on at i + 1 of the list as it is now.
XsltInclude ==
  /\ IncludeOnly
  /\ inc.pc = "loop" /\ inc.rest # <<>> /\ IsInclude(Head(inc.rest))
  /\ LET transformNode == Head(inc.rest)
         includeTransformNode ==
           IF transformNode.href = NoAttr THEN <<>>
           ELSE inc.docs[transformNode.href]
         list == IF transformNode.href = NoAttr THEN inc.rest
                 ELSE IF transformNode.nodeName = "xsl:include"
                 THEN includeTransformNode \o Tail(inc.rest)
                 ELSE Tail(inc.rest) \o includeTransformNode
     IN inc' = [inc EXCEPT !.before = Advance(inc.before, list).before,
                           !.rest = Advance(inc.before, list).rest]

\* The loop ends when i reaches the length of the list.
IncludesReturn ==
  /\ IncludeOnly
  /\ inc.pc = "loop" /\ inc.rest = <<>>
  /\ inc' = [inc EXCEPT !.pc = "returned"]

NextIncludes ==
  \/ IncludesChild
  \/ XsltInclude
  \/ IncludesReturn

\* The specification of one include pre-pass.  Every fetch succeeds and
\* the loop runs on as long as it has a child to look at.
SpecIncludes ==
  InitIncludes /\ [][NextIncludes]_vars /\ WF_vars(NextIncludes)

-----------------------------------------------------------------------------
(* What the claims on the handlers speak of *)

\* The children of the node that the pattern selects, in document order.
Selected(pattern, node) ==
  SelectSeq(node.childNodes, LAMBDA n : PatternSelects(pattern, n))

\* A deep copy of an input node: the node, its attributes other than
\* xmlns*, and the deep copies of its children.
RECURSIVE DeepCopy(_)
DeepCopy(node) ==
  IF node.nodeType = "text" THEN TextNode(node.nodeValue)
  ELSE ElementNode(node.nodeName,
         SelectSeq(node.attributes, LAMBDA a : ~IsXmlns(a.nodeName)),
         [k \in 1..Len(node.childNodes) |-> DeepCopy(node.childNodes[k])])

\* C7: xsl:copy-of appends a deep copy of every node its select returns,
\* in order, whatever their number, one included; so copy-of select="*" on
\* the root of <a><b x="1"/></a> appends <a><b x="1"/></a>.
C7_CopyOfDeepCopies ==
  (call # Null /\ call.op = "xsltCopyOf" /\ result # Null
     /\ call.transformNode.select # NoAttr) =>
    /\ result.thrown = Null
    /\ result.appended =
         [k \in 1..Len(Selected(call.transformNode.select, call.contextNode)) |->
            DeepCopy(Selected(call.transformNode.select, call.contextNode)[k])]

\* The string value of an expression of the attribute values.
StringValue(expr) ==
  CASE expr = <<".">> -> textContent(call.contextNode)
    [] expr = <<"@", "x">> -> call.contextNode.attributes[1].nodeValue
    [] expr = <<"$", "v">> ->
         IF "v" \in DOMAIN call.variables THEN call.variables.v.v ELSE <<>>

\* C8: a processed literal result element gives an output element with the
\* same namespace and name, and in each attribute value every {expr} is
\* replaced by the string value of expr in the current context, whatever
\* the expression (values written with doubled braces are left aside); so
\* a="pre-{@x}-post" on an element with x="7" gives a="pre-7-post".
C8_AttributeValueTemplates ==
  (call # Null /\ call.op = "passThrough" /\ result # Null
     /\ \A k \in 1..Len(call.parts) : call.parts[k].kind # "escape") =>
    /\ result.thrown = Null
    /\ Len(result.appended) = 1
    /\ result.appended[1].namespaceURI = call.transformNode.namespaceURI
    /\ result.appended[1].nodeName = call.transformNode.nodeName
    /\ result.appended[1].attributes =
         <<Attr(<<"a">>, Concat([k \in 1..Len(call.parts) |->
              IF call.parts[k].kind = "expr"
              THEN StringValue(call.parts[k].text)
              ELSE call.parts[k].text]))>>

\* The nodes in the order the xsl:sort elements ask for.
SortedNodes(nodes, sort) ==
  LET order == CHOOSE p \in [1..Len(nodes) -> 1..Len(nodes)] :
                 \A i, j \in 1..Len(nodes) :
                   i < j => SortsBefore(nodes[p[i]], nodes[p[j]], sort)
  IN [k \in 1..Len(nodes) |-> nodes[order[k]]]

\* C9: xsl:for-each with xsl:sort children executes its body over the
\* selected nodes in the order of the sort keys (text or number, ascending
\* or descending), equal keys keeping document order, and without
\* xsl:sort in document order; so 10, 2, 30 sorted as numbers, descending,
\* give 30, 10, 2.
C9_ForEachInSortOrder ==
  (call # Null /\ call.op = "xsltForEach" /\ result # Null
     /\ call.transformNode.select # NoAttr) =>
    LET nodes == SortedNodes(Selected(call.transformNode.select, call.contextNode),
                   SelectSeq(call.transformNode.childNodes,
                             LAMBDA child : child.nodeName = "xsl:sort"))
    IN /\ result.thrown = Null
       /\ result.appended =
            [k \in 1..Len(nodes) |-> TextNode(textContent(nodes[k]))]

\* C11: a select that begins with a variable reference yields the value of
\* the whole expression computed with the variables' current values: $n
\* yields the value bound to n, whatever it is (0 and false included),
\* $n - 1 the number one less than n, and $a + $n the sum of a and n.
C11_VariableSelects ==
  (call # Null /\ call.op = "xsltSelect" /\ result # Null
     /\ Has(call.variables, "n")) =>
    LET n == call.variables.n
        a == call.variables.a
    IN /\ call.select = <<"$", "n">> => result.value = n
       /\ (call.select = <<"$", "n", " ", "-", " ", "1">> /\ n.t = "number") =>
            result.value = Num(DigitsOf(ToNumber(n.v) - 1))
       /\ (call.select = <<"$", "a", " ", "+", " ", "$", "n">>
             /\ n.t = "number" /\ a.t = "number") =>
            result.value = Num(DigitsOf(ToNumber(a.v) + ToNumber(n.v)))

\* C12: xsl:param never replaces a binding that its name already has in the
\* same scope, whatever value is bound (0, false and the empty string
\* included); xsl:variable and xsl:with-param always replace it.
C12_ParamKeepsBinding ==
  (call # Null /\ call.op = "processVariable" /\ result # Null
     /\ result.thrown = Null) =>
    /\ (call.transformNode.nodeName = "xsl:param"
          /\ Has(call.variables, "n")) =>
         result.variables.n = call.variables.n
    /\ (call.transformNode.nodeName # "xsl:param"
          /\ call.transformNode.select = <<"$", "a">>
          /\ call.transformNode.childNodes = <<>>) =>
         result.variables.n = call.variables.a

\* C13: the text a successful run returns starts with an XML declaration
\* unless an xsl:output of the transform says omit-xml-declaration="yes":
\* for a transform without such an xsl:output the declaration is there,
\* wherever its xsl:output stands and also when it has none.
C13_DeclarationUnlessOmitted ==
  (promise.state = "resolved"
     /\ \A k \in 1..Len(transformDoc.childNodes) :
          transformDoc.childNodes[k] # "output-yes") =>
    StartsAt(promise.value.v, 1, <<"<?xml ">>)

\* C14: two runs of process with equal input document, equal transform and
\* equal params return equal output text, whatever was run before either
\* of them in the same process.  Stated on a finished run and the record of
\* the earlier runs: a run of the same transform settled its promise alike.
C14_EqualRunsEqualOutput ==
  RunOver =>
    \A k \in 1..Len(runs) :
      runs[k].transformDoc = transformDoc => runs[k].promise = promise

\* C15: within a run the include pre-pass, the construction of the template
\* cache and the binding of every top-level xsl:variable are completed
\* before the body of any template starts executing, wherever the variable
\* stands among the children of the transform element: in the record of the
\* call every such step stands before the first body, and by then every
\* xsl:variable child is bound.
C15_SetupBeforeTemplates ==
  (xt # Null) =>
    \A b \in 1..Len(xt.log) :
      xt.log[b].op = "processChildNodes" =>
        /\ \A k \in 1..Len(xt.log) :
             xt.log[k].op \in {"processIncludes", "getTemplateNodes"} => k < b
        /\ \A c \in 1..Len(xt.childNodes) :
             IsVariable(xt.childNodes[c]) =>
               \E k \in 1..(b - 1) :
                 xt.log[k] = [op |-> "xsltVariable", child |-> c]

\* C16: when every fetch succeeds the include pre-pass handles every
\* xsl:include and xsl:import child the transform element has when the
\* pre-pass starts, whatever their positions: once it has returned, none of
\* them is left among the children, and the templates of the document each
\* referenced are there.
C16_EveryIncludeHandled ==
  (inc # Null /\ inc.pc = "returned") =>
    \A k \in 1..Len(inc.childNodes) :
      IsInclude(inc.childNodes[k]) =>
        /\ inc.childNodes[k] \notin inc.before
        /\ \A c \in 1..Len(inc.docs[inc.childNodes[k].href]) :
             ~IsInclude(inc.docs[inc.childNodes[k].href][c]) =>
               inc.docs[inc.childNodes[k].href][c] \in inc.before

\* C17: the include pre-pass terminates for every finite set of fetchable
\* documents, those that include each other cyclically as well.
C17_IncludesTerminate == (inc # Null) ~> (inc # Null /\ inc.pc = "returned")

\* C18: a template (of the matching mode) fires for the input node N
\* exactly when its match, evaluated from some ancestor of N, returns a
\* node set that contains N; so a/b fires for every b whose parent is an a.
C18_MatchFromSomeAncestor ==
  (call # Null /\ call.op = "xsltMatch" /\ result # Null) =>
    (result.value.v <=>
       \E n \in 0..(Len(call.contextNode.path) - 1) :
         \E k \in 1..Len(SelectPath(<<NodeAt(MatchDocument,
                                      SubSeq(call.contextNode.path, 1, n))>>,
                                    call.match)) :
           SelectPath(<<NodeAt(MatchDocument,
                               SubSeq(call.contextNode.path, 1, n))>>,
                      call.match)[k].path = call.contextNode.path)

\* C19: a variable declared among the children of an instruction or of a
\* literal result element (xsl:if, xsl:when, a literal element) is gone
\* once the instruction has completed: getVariable at the enclosing
\* context then returns for every name what it returned before the
\* instruction started.
C19_VariablesOfChildrenScoped ==
  (call # Null /\ call.op = "process" /\ result # Null) =>
    \A name \in {"n", "a"} :
      getVariable([HandlerContext EXCEPT ![1].variables = result.variables],
                  1, name)
        = getVariable(HandlerContext, 1, name)

-----------------------------------------------------------------------------
(* The contexts of xsl:apply-templates and xsl:for-each *)

InitContexts ==
  \/ InitApply
  \/ /\ call \in ForEachCalls /\ result = Null
     /\ ParkRun /\ ParkApply /\ ParkScope /\ ParkTransform

NextContexts ==
  \/ XsltApplyTemplates
  \/ ApplyTemplatesProcess
  \/ ApplyTemplatesCopy
  \/ ApplyTemplatesSort
  \/ XsltForEach

\* The specification of the contexts one call of xsltApplyTemplates or of
\* xsltForEach creates.
SpecContexts == InitContexts /\ [][NextContexts]_vars

\* The context was cloned from the sort context of the call, as the
\* contexts of the loop turns are.
PerIteration(c) ==
  \/ at # Null /\ at.sortContext # 0 /\ contexts[c].parent = at.sortContext
  \/ /\ call # Null /\ result # Null
     /\ result.sortContext # 0 /\ contexts[c].parent = result.sortContext

\* C20: in every context created, contextPosition is a valid 1-based index
\* into nodeList (1 <= contextPosition <= length of nodeList), and in the
\* contexts for-each and apply-templates create for the turns of their
\* loops the node at that index is the context node of the context.
C20_PositionIndexesNodeList ==
  \A c \in 1..Len(contexts) :
    /\ 1 <= contexts[c].contextPosition
    /\ contexts[c].contextPosition <= Len(contexts[c].nodeList)
    /\ PerIteration(c) =>
         contexts[c].nodeList[contexts[c].contextPosition]
           = contexts[c].contextNode

\* C20 witness: apply-templates and for-each each can reach a state where
\* the context of the second turn of the loop exists; here the call is
\* over and that context stands at position 2 of a list of two nodes.
C20_Witness ==
  /\ \/ ApplyOver
     \/ call # Null /\ result # Null /\ result.thrown = Null
  /\ \E c \in 1..Len(contexts) :
       /\ PerIteration(c)
       /\ contexts[c].contextPosition = 2
       /\ Len(contexts[c].nodeList) = 2
       /\ contexts[c].contextNode = contexts[c].nodeList[2]

\* The policy of the lookup order exact name, namespace wildcard, global
\* wildcard, normalize, where the entry found first decides (an entry of
\* the same rank in both lists decides nothing here).
PolicyInOrder(stripSpaceList, preserveSpaceList, contextElement) ==
  LET ranks == <<{fullName(contextElement)},
                 {allNamespace(contextElement)} \ {JsNull}, {"*"}>>
      found == {r \in 1..3 : ranks[r] \cap (stripSpaceList \cup preserveSpaceList) # {}}
      first == CHOOSE r \in found : \A q \in found : r <= q
  IN IF found = {} THEN "normalize"
     ELSE IF ranks[first] \cap preserveSpaceList = {} THEN "strip"
     ELSE IF ranks[first] \cap stripSpaceList = {} THEN "preserve"
     ELSE "undecided"

\* C21: processWhitespace chooses the policy of an element by the entry for
\* its exact name, then the entry for the namespace wildcard, then the one
\* for the global *, otherwise normalize; an exact-name entry of either
\* list decides before any wildcard entry; without element it is strip.
C21_ExactNameBeforeWildcards ==
  (call # Null /\ call.op = "processWhitespace" /\ result # Null) =>
    IF call.contextElement = Null THEN result.process = "strip"
    ELSE LET policy == PolicyInOrder(call.stripSpaceList,
                         call.preserveSpaceList, call.contextElement)
         IN policy # "undecided" => result.process = policy

\* C22: a text node of the transform that holds white space only (spaces,
\* tabs, line breaks) produces no output, unless it is a child of xsl:text
\* or has an ancestor element with xml:space="preserve": then it is
\* emitted.
C22_SpaceTextDropped ==
  (call # Null /\ call.op = "processText" /\ result # Null) =>
    (result.appended # <<>>
       <=> \/ call.transformNode.nodeName = "xsl:text"
           \/ call.transformNode.xmlSpace = "preserve")

\* The value XPath 1.0 gives the expressions of ShortcutKinds that are one
\* token: a token of digits is a number literal, a name is a name test on
\* the child axis.
XPathValue(xPath, node) ==
  IF \A k \in 1..Len(xPath) : xPath[k] \in {Digit(d) : d \in 0..9}
  THEN Num(xPath)
  ELSE Nodes(SelectSeq(node.childNodes,
                       LAMBDA child : /\ child.nodeType = "element"
                                      /\ child.nodeName = xPath))

\* C23: for every expression that takes the shortcut of select (a bare,
\* optionally prefixed, name token with result type ANY), the shortcut
\* returns what the XPath evaluation of that expression from the same
\* context node returns.
C23_ShortcutAgreesWithXPath ==
  (call # Null /\ call.op = "select" /\ result # Null /\ result.shortcut) =>
    result.value = XPathValue(call.xPath, call.contextNode)

\* C24: isA('xsl:<name>') is true for every element whose namespace is the
\* XSLT namespace and whose local name is <name>, whatever prefix the
\* transform document binds to the XSLT namespace, also when called as the
\* engine calls it for its templates and sorts (without a resolver).
C24_IsAWhateverPrefix ==
  (call # Null /\ call.op = "isA" /\ result # Null) =>
    ((/\ call.node.namespaceURI = XsltNamespace
      /\ call.node.localName = call.qName[3]) => result.value.v)

-----------------------------------------------------------------------------
(* The DOM trees of a run *)

MaxDom == 12       \* nodes that exist in one run

\* A node: the tree it was made for, its kind, its parent (0 for none).
DomNode(origin, nodeType, parent) ==
  [origin |-> origin, nodeType |-> nodeType, parent |-> parent]

\* The nodes at the start of a run: the output fragment process() makes,
\* the input element r with a child, a node of the transform, a variable's
\* result tree fragment with a child, a fetched document with a child.
FirstNodes(childType) ==
  <<DomNode("output", "fragment", 0),
    DomNode("input", "element", 0), DomNode("input", childType, 2),
    DomNode("transform", "element", 0),
    DomNode("variable", "fragment", 0), DomNode("variable", "element", 5),
    DomNode("fetched", "document", 0), DomNode("fetched", "element", 7)>>

OutputRoot == 1

DomOnly ==
  UNCHANGED <<runVars, applyVars, scopeVars, handlerVars, xt, inc, procs>>

InitDom ==
  /\ \E childType \in {"element", "text"} :
       dom = [nodes |-> FirstNodes(childType), appended |-> <<>>]
  /\ xt = Null /\ inc = Null /\ procs = Null
  /\ ParkRun /\ ParkApply /\ ParkScope /\ ParkHandler

\* The node hangs in the output tree.
RECURSIVE InOutput(_, _)
InOutput(nodes, n) ==
  n # 0 /\ (n = OutputRoot \/ InOutput(nodes, nodes[n].parent))

\* The nodes a handler can get as outputNode: the fragment and the elements
\* of the output tree.
OutputNodes ==
  {n \in 1..Len(dom.nodes) :
     InOutput(dom.nodes, n) /\ dom.nodes[n].nodeType \in {"fragment", "element"}}

\* The nodes a context can have as context node: those of the input, of a
\* result tree fragment and of a fetched document.
ContextNodes ==
  {n \in 1..Len(dom.nodes) :
     dom.nodes[n].origin \in {"input", "variable", "fetched"}}

\* The appends to the output tree that the step from nodes to after made,
\* in the order of the nodes.
RECURSIVE Appends(_, _, _)
Appends(nodes, after, n) ==
  IF n > Len(after) THEN <<>>
  ELSE (IF /\ InOutput(after, n) /\ n # OutputRoot
           /\ (n > Len(nodes) \/ nodes[n].parent # after[n].parent)
        THEN <<[node |-> n, parent |-> after[n].parent]>> ELSE <<>>)
       \o Appends(nodes, after, n + 1)

\* $$(outputDocument).createElementNS / createTextNode / createComment and
\* outputNode.appendChild(node): the nodes afterwards.
createAndAppend(nodes, outputNode, nodeType) ==
  Append(nodes, DomNode("created", nodeType, outputNode))

\* $$(destNode).copy(srcNode): an element or a text gets a new node in the
\* destination, a document gets none.
copy(nodes, destNode, srcNode) ==
  IF nodes[srcNode].nodeType \in {"element", "text"}
  THEN createAndAppend(nodes, destNode, nodes[srcNode].nodeType)
  ELSE nodes

\* The children of a node, in the order of the nodes.
childNodesOf(nodes, n) ==
  SelectSeq([k \in 1..Len(nodes) |-> k], LAMBDA k : nodes[k].parent = n)

\* $$(destNode).copyDeep(srcNode): the element children of a fragment or
\* document are copied, any other node is copied with its children.
RECURSIVE copyDeepNodes(_, _, _)
RECURSIVE copyDeepEach(_, _, _, _)
copyDeepEach(nodes, destNode, children, elementsOnly) ==
  IF children = <<>> THEN nodes
  ELSE copyDeepEach(
         IF elementsOnly /\ nodes[Head(children)].nodeType # "element"
         THEN nodes ELSE copyDeepNodes(nodes, destNode, Head(children)),
         destNode, Tail(children), elementsOnly)
copyDeepNodes(nodes, destNode, srcNode) ==
  IF nodes[srcNode].nodeType \in {"fragment", "document"}
  THEN copyDeepEach(nodes, destNode, childNodesOf(nodes, srcNode), TRUE)
  ELSE LET copied == copy(nodes, destNode, srcNode) IN
       IF Len(copied) = Len(nodes) THEN nodes
       ELSE copyDeepEach(copied, Len(copied), childNodesOf(nodes, srcNode),
                         FALSE)

\* One step of the DOM machine: the nodes afterwards, and the appends to
\* the output tree it made.
DomStep(after) ==
  /\ DomOnly
  /\ Len(after) <= MaxDom
  /\ dom' = [nodes |-> after,
             appended |-> dom.appended \o Appends(dom.nodes, after, 1)]

\* passThrough of a literal result element, xsltElement: a new element.
AppendElement == \E outputNode \in OutputNodes :
  DomStep(createAndAppend(dom.nodes, outputNode, "element"))

\* passThrough and processChildNodes of a text, xsltText, xsltValueOf,
\* xsltCopyOf of one node, xsltComment: a new text or comment.
AppendText == \E outputNode \in OutputNodes :
  DomStep(createAndAppend(dom.nodes, outputNode, "text"))

\* xsltCopy, and the copy of an unmatched text node by xsltApplyTemplates.
CopyNode == \E outputNode \in OutputNodes, contextNode \in ContextNodes :
  DomStep(copy(dom.nodes, outputNode, contextNode))

\* xsltCopyOf of several nodes.
CopyDeepNode == \E outputNode \in OutputNodes, contextNode \in ContextNodes :
  DomStep(copyDeepNodes(dom.nodes, outputNode, contextNode))

\* xsltSelect of $variable/...: a temp element is made, the children of
\* the fragment are moved into it, the temp element is hung below the host
\* of the context node, the select is evaluated, the children are moved
\* back and the temp element is taken out again, all in one turn.
SelectVariable == \E variableNode \in ContextNodes :
  /\ dom.nodes[variableNode].nodeType = "fragment"
  /\ DomStep(Append(dom.nodes, DomNode("created", "element", 0)))

\* xsltSelect of document($variable)...: the children of the fetched
\* document are moved into the temp element and stay there when it is
\* taken out of the input tree.
SelectDocument == \E srcDoc \in ContextNodes :
  /\ dom.nodes[srcDoc].nodeType = "document"
  /\ DomStep([n \in 1..(Len(dom.nodes) + 1) |->
       IF n = Len(dom.nodes) + 1 THEN DomNode("created", "element", 0)
       ELSE IF dom.nodes[n].parent = srcDoc
       THEN [dom.nodes[n] EXCEPT !.parent = Len(dom.nodes) + 1]
       ELSE dom.nodes[n]])

NextDom ==
  \/ AppendElement
  \/ AppendText
  \/ CopyNode
  \/ CopyDeepNode
  \/ SelectVariable
  \/ SelectDocument

\* The specification of the trees of one run.
SpecDom == InitDom /\ [][NextDom]_vars

\* C25: every node attached to the output tree was newly created during
\* the run (no node of the input, of the transform, of a fetched document
\* or of a variable's result tree fragment is a child in the output tree),
\* and a node once appended to the output tree is never removed or moved:
\* it still has the parent it was appended to.
C25_OutputNodesNewAndKept ==
  dom # Null =>
    /\ \A n \in 1..Len(dom.nodes) :
         (InOutput(dom.nodes, n) /\ n # OutputRoot) =>
           /\ dom.nodes[n].origin = "created"
           /\ \E k \in 1..Len(dom.appended) : dom.appended[k].node = n
    /\ \A k \in 1..Len(dom.appended) :
         dom.nodes[dom.appended[k].node].parent = dom.appended[k].parent

\* C25 witness: an input element with its child was copied into the output
\* tree, below an element made before, and a select on a variable made and
\* removed its temp element.
C25_Witness ==
  /\ dom # Null /\ Len(dom.appended) = 3
  /\ dom.appended[2].parent = dom.appended[1].node
  /\ dom.appended[3].parent = dom.appended[2].node
  /\ \E n \in 1..Len(dom.nodes) :
       dom.nodes[n].origin = "created" /\ dom.nodes[n].parent = 0

\* C26: for a name with a namespace, getFunction returns the function of
\* the next resolver in the chain whenever that resolver resolves the name,
\* and returns the transform's xsl:function only when it does not.
C26_ChainBeforeStylesheetFunction ==
  (/\ call # Null /\ call.op = "getFunction" /\ result # Null
   /\ call.namespaceURI # ""
   /\ call.functionResolver.chained)
  => LET resolved == chainGetFunction(call.functionResolver, call.localName,
                                      call.namespaceURI)
     IN /\ resolved # JsUndefined => result.fcn = resolved
        /\ result.fcn = FunctionOf("customFunction", call.localName)
           => resolved = JsUndefined

\* a is b with some of its elements left out.
RECURSIVE IsSubsequence(_, _)
IsSubsequence(a, b) ==
  IF a = <<>> THEN TRUE
  ELSE IF b = <<>> THEN FALSE
  ELSE IF Head(a) = Head(b) THEN IsSubsequence(Tail(a), Tail(b))
  ELSE IsSubsequence(a, Tail(b))

\* C27: for a non-negative integer n and a pattern whose integer part has a
\* digit placeholder, every decimal digit of n appears in the result of
\* format-number, in the original order: the digits that overflow the
\* pattern are prepended.
C27_OverflowDigitsKept ==
  (/\ call # Null /\ call.op = "formatNumber" /\ result # Null
   /\ call.number >= 0
   /\ \E k \in 1..(FirstOf(call.format, ".") - 1) :
         call.format[k] \in {"0", "#"})
  => IsSubsequence(DigitsOf(call.number), result.value)

\* C28: the text of an xsl:text with disable-output-escaping="yes" comes
\* out of wrapping, serialization and sentinel resolution as it was written:
\* its delimiters < > ' " & unescaped, every other character unchanged.
\* Texts with a run of spaces or a line break are left aside (text creation
\* and the indentation replacement change those with or without the
\* attribute).
C28_UnescapedTextRoundTrips ==
  (/\ call # Null /\ call.op = "emitText" /\ result # Null
   /\ toLowerCase(call.transformNode.disableOutputEscaping) = "yes")
  => LET text == textContent(call.transformNode.childNodes[1])
     IN (/\ \A k \in 1..Len(text) : text[k] # "\n"
         /\ \A k \in 1..(Len(text) - 1) : ~(text[k] = " " /\ text[k + 1] = " "))
        => result.xml = text

-----------------------------------------------------------------------------
(* Two runs of XSLT.process in one Node process: their cfg objects *)

ProcRuns == {1, 2}
MaxProcContexts == 4
MaxSwitches == 2
ProcModes == {"_default", "m"}

\* The templates of the transform of a run, by mode: each run has its own
\* transform document.
TemplatesOfRun(run, mode) ==
  <<[document |-> run, nodeName |-> "xsl:template", mode |-> mode]>>

\* cfg: { stripSpaceList: {}, preserveSpaceList: {}, _cache: {} } in the
\* executor of process: a new object for each call.  An object is its index
\* in cfgs; readers and writers record the runs that used it.
processCfg(cfgs) ==
  [cfgs |-> Append(cfgs, [stripSpaceList |-> {}, preserveSpaceList |-> {},
                          templatesByMode |-> <<>>, builds |-> 0,
                          readers |-> {}, writers |-> {}]),
   cfg |-> Len(cfgs) + 1]

\* cfg: options.cfg || this.cfg of clone; no caller passes options.cfg.
cloneCfg(this, options) ==
  IF Has(options, "cfg") THEN options.cfg ELSE this.cfg

\* A step of this machine leaves the other machines alone.
ProcOnly ==
  UNCHANGED <<runVars, applyVars, scopeVars, handlerVars, xt, inc, dom>>

InitProcs ==
  /\ procs = [own |-> [r \in ProcRuns |-> 0], cfgs |-> <<>>,
              contexts |-> <<>>, returned |-> [r \in ProcRuns |-> {}],
              last |-> 0, switches |-> 0]
  /\ xt = Null /\ inc = Null /\ dom = Null
  /\ ParkRun /\ ParkApply /\ ParkScope /\ ParkHandler

\* The run that takes the step: a step of the other run after a step of
\* this one is a resumption at a suspension point (an await).
Resumed(run) ==
  [last |-> run,
   switches |-> IF procs.last \notin {0, run} /\ procs.switches < MaxSwitches
                THEN procs.switches + 1 ELSE procs.switches]

\* XSLT.process, up to the first await: the cfg object and the root context.
ProcessStart ==
  /\ ProcOnly
  /\ \E run \in ProcRuns :
       /\ procs.own[run] = 0
       /\ Len(procs.contexts) < MaxProcContexts
       /\ LET made == processCfg(procs.cfgs) IN
          procs' = [procs EXCEPT
                      !.own[run] = made.cfg,
                      !.cfgs = made.cfgs,
                      !.contexts = Append(@, [run |-> run, cfg |-> made.cfg,
                                              parent |-> 0]),
                      !.last = Resumed(run).last,
                      !.switches = Resumed(run).switches]

\* this.clone(options) in a handler.
CloneContext ==
  /\ ProcOnly
  /\ Len(procs.contexts) < MaxProcContexts
  /\ \E c \in 1..Len(procs.contexts) :
       LET this == procs.contexts[c] IN
       procs' = [procs EXCEPT
                   !.contexts = Append(@, [run |-> this.run,
                                           cfg |-> cloneCfg(this, EmptyObject),
                                           parent |-> c]),
                   !.last = Resumed(this.run).last,
                   !.switches = Resumed(this.run).switches]

\* getTemplateNodes(document, mode): the test of the cache entry, its
\* construction from the children of the transform element and the return
\* are one synchronous stretch.
GetTemplateNodes ==
  /\ ProcOnly
  /\ \E c \in 1..Len(procs.contexts), mode \in ProcModes :
       LET this == procs.contexts[c]
           cfg == procs.cfgs[this.cfg]
           cached == \E k \in 1..Len(cfg.templatesByMode) :
                       cfg.templatesByMode[k].mode = mode
           stored == IF cached THEN cfg.templatesByMode
                     ELSE Append(cfg.templatesByMode,
                                 [mode |-> mode,
                                  nodes |-> TemplatesOfRun(this.run, mode)])
           entry == stored[CHOOSE k \in 1..Len(stored) :
                             stored[k].mode = mode]
       IN procs' = [procs EXCEPT
                      !.cfgs[this.cfg] =
                         [cfg EXCEPT
                            !.templatesByMode = stored,
                            !.builds = IF cached THEN @ ELSE @ + 1,
                            !.readers = @ \cup {this.run},
                            !.writers = IF cached THEN @
                                        ELSE @ \cup {this.run}],
                      !.returned[this.run] = @ \cup {entry.nodes},
                      !.last = Resumed(this.run).last,
                      !.switches = Resumed(this.run).switches]

\* xsltStripSpace / xsltPreserveSpace: this.cfg.stripSpaceList[fullName] =
\* elementName, for the element name e.
SetSpaceList ==
  /\ ProcOnly
  /\ \E c \in 1..Len(procs.contexts), strip \in BOOLEAN :
       LET this == procs.contexts[c]
           cfg == procs.cfgs[this.cfg]
       IN procs' = [procs EXCEPT
                      !.cfgs[this.cfg] =
                         [cfg EXCEPT
                            !.stripSpaceList =
                               IF strip THEN @ \cup {"e"} ELSE @,
                            !.preserveSpaceList =
                               IF strip THEN @ ELSE @ \cup {"e"},
                            !.writers = @ \cup {this.run}],
                      !.last = Resumed(this.run).last,
                      !.switches = Resumed(this.run).switches]

\* processWhitespace reads this.cfg.stripSpaceList and preserveSpaceList.
ReadSpaceLists ==
  /\ ProcOnly
  /\ \E c \in 1..Len(procs.contexts) :
       LET this == procs.contexts[c]
           cfg == procs.cfgs[this.cfg]
       IN /\ this.run \notin cfg.readers
          /\ procs' = [procs EXCEPT
                         !.cfgs[this.cfg] =
                            [cfg EXCEPT !.readers = @ \cup {this.run}],
                         !.last = Resumed(this.run).last,
                         !.switches = Resumed(this.run).switches]

NextProcs ==
  \/ ProcessStart
  \/ CloneContext
  \/ GetTemplateNodes
  \/ SetSpaceList
  \/ ReadSpaceLists

\* The specification of two runs side by side.
SpecProcs == InitProcs /\ [][NextProcs]_vars

\* C29: when two runs of process interleave, every context of a run refers
\* to the cfg object made by that run's call of process and never to the
\* other run's; the caches and lists of a cfg object are written and read by
\* its own run only, each cache entry is built once and whole, and what
\* getTemplateNodes returns to a run are the templates of its own transform.
C29_RunsKeepTheirCfg ==
  procs # Null =>
    /\ \A c \in 1..Len(procs.contexts) :
         LET this == procs.contexts[c] IN
         /\ this.cfg = procs.own[this.run]
         /\ \A other \in ProcRuns \ {this.run} : this.cfg # procs.own[other]
    /\ \A run \in ProcRuns :
         procs.own[run] # 0 =>
           LET cfg == procs.cfgs[procs.own[run]] IN
           /\ cfg.readers \subseteq {run}
           /\ cfg.writers \subseteq {run}
           /\ cfg.builds = Len(cfg.templatesByMode)
           /\ \A k \in 1..Len(cfg.templatesByMode) :
                cfg.templatesByMode[k].nodes =
                  TemplatesOfRun(run, cfg.templatesByMode[k].mode)
    /\ \A run \in ProcRuns :
         procs.returned[run] \subseteq
           {TemplatesOfRun(run, mode) : mode \in ProcModes}

\* Both runs are under way and have taken turns twice; each has a cloned
\* context, has built a cache entry and has written a space list.
C29_Witness ==
  /\ procs # Null
  /\ procs.switches >= 2
  /\ \A run \in ProcRuns :
       /\ procs.own[run] # 0
       /\ \E c \in 1..Len(procs.contexts) :
            procs.contexts[c].run = run /\ procs.contexts[c].parent # 0
       /\ procs.cfgs[procs.own[run]].builds >= 1
       /\ procs.cfgs[procs.own[run]].stripSpaceList # {}

\* C30: resolveExpression returns a string for every attribute text: it
\* throws on no arrangement of braces.
C30_ResolveExpressionReturns ==
  (call # Null /\ call.op = "resolveExpression" /\ result # Null)
  => result.thrown = Null

====
